---- MODULE Spec2Model ----
(***************************************************************************)
(* Scope resolution engine of taskcluster-auth: the scope algebra          *)
(* (scopeCompare, mergeScopeSets), the role recognizer (generateDFA,       *)
(* executeDFA), the fixed-point expansion (computeFixedPoint), the         *)
(* ScopeResolver (buildResolver, reload, reloadClient, reloadRole) and     *)
(* the serialisation of reloads through _reloadDone.                       *)
(*                                                                         *)
(* A string is a sequence of character codes (UTF-16 code units, as the    *)
(* JavaScript comparison operators see them).                              *)
(***************************************************************************)
EXTENDS Integers, Sequences, FiniteSets, TLC

VARIABLES
  \* recognizer: the roles given to buildResolver, what it returned, and
  \* the last call of the resolver [scope, index]
  tRoles, tBuilt, tRun,
  \* fixed point: the roles given to computeFixedPoint, the order in which
  \* the shuffle visited them, what it computed, and the last call of the
  \* resolver it returned [scope, scopes]
  fRoles, fOrder, fFixed, fRun,
  \* resolver of ScopeResolver.buildResolver: the roles it was built from,
  \* the closure it returned (None before it is built) and two calls of it
  \* [inputs, result, after]: the list passed, the list returned and the
  \* caller's list after the call
  rRoles, rRules, rFirst, rSecond,
  \* ScopeResolver and its sources: the Role and Client tables, the fields
  \* _roles, _clients, _clientCache and _resolver, the reload operations in
  \* the order they were requested (_reloadDone is the promise of the last
  \* one), the number of writes made to the tables and, for each entity,
  \* the number of the last write made to it (0 if none)
  Role, Client, _roles, _clients, _clientCache, _resolver, reloads, writes,
  written,
  \* loadClient and _updateLastUsed: the clock, the last call of loadClient
  \* and what it returned, the calls of _updateLastUsed in the order they
  \* were made, and the number of errors emitted
  now, held, updates, errors,
  \* mergeScopeSets: the two lists given to it and the list it returned
  mScopes1, mScopes2, mMerged,
  \* a call of one of the other functions (scopeCompare, normalizeScopes,
  \* grantsRole, the loop of resolve): its arguments and what it has
  \* returned or computed so far
  args, ret

trieVars == <<tRoles, tBuilt, tRun>>

fixVars == <<fRoles, fOrder, fFixed, fRun>>

resVars == <<rRoles, rRules, rFirst, rSecond>>

mrgVars == <<mScopes1, mScopes2, mMerged>>

callVars == <<args, ret>>

\* The state of the functions called outside a ScopeResolver
pureVars == <<trieVars, fixVars, resVars, mrgVars, callVars>>

\* What readers of the ScopeResolver see
snapshot == <<_roles, _clients, _clientCache, _resolver>>

\* The clock, the readers of the cache and the last-used updates
ldVars == <<now, held, updates, errors>>

relVars == <<Role, Client, snapshot, reloads, writes, written, ldVars>>

vars == <<pureVars, relVars>>

\* ------------------------------------------------------------------------
\* Characters and strings
\* ------------------------------------------------------------------------

\* The value of s[i] for an index outside the string.
Undef == -1

\* null, or no value yet
None == [none |-> TRUE]

LPAREN == 40
STAR == 42
COLON == 58
CH_a == 97
CH_b == 98
CH_e == 101
CH_m == 109
CH_s == 115
CH_u == 117
CH_x == 120

\* 'assume'
AssumeWord == <<CH_a, CH_s, CH_s, CH_u, CH_m, CH_e>>

\* 'assume:'
AssumeColon == AssumeWord \o <<COLON>>

\* s[i] with a 0-based index, undefined outside the string
CharAt(s, i) == IF i >= 0 /\ i < Len(s) THEN s[i + 1] ELSE Undef

\* s.slice(0, -1)
DropLast(s) == IF Len(s) = 0 THEN <<>> ELSE SubSeq(s, 1, Len(s) - 1)

\* s.slice(k)
SliceFrom(s, k) == IF k >= Len(s) THEN <<>> ELSE SubSeq(s, k + 1, Len(s))

\* s.startsWith(p)
StartsWith(s, p) == Len(p) <= Len(s) /\ SubSeq(s, 1, Len(p)) = p

\* s.endsWith('*')
EndsWithStar(s) == Len(s) > 0 /\ s[Len(s)] = STAR

\* a < b on strings: the first differing code unit decides, a proper prefix
\* is smaller
RECURSIVE StrLtFrom(_, _, _)
StrLtFrom(a, b, i) ==
  IF i > Len(a) THEN i <= Len(b)
  ELSE IF i > Len(b) THEN FALSE
  ELSE IF a[i] # b[i] THEN a[i] < b[i]
  ELSE StrLtFrom(a, b, i + 1)

StrLt(a, b) == StrLtFrom(a, b, 1)

Abs(x) == IF x < 0 THEN -x ELSE x

\* ------------------------------------------------------------------------
\* Scope algebra
\* ------------------------------------------------------------------------

\* scopeCompare(a, b): -1 when a sorts first, 1 otherwise
scopeCompare(a, b) ==
  LET n == Len(a)
      m == Len(b)
      d == Abs(n - m)
      lex == IF StrLt(a, b) THEN -1 ELSE 1
  IN  IF d = 0
      THEN IF (CharAt(a, n - 1) = STAR \/ CharAt(b, n - 1) = STAR)
              /\ StartsWith(a, DropLast(b))
           THEN IF CharAt(a, n - 1) = STAR THEN -1
                ELSE IF CharAt(b, n - 1) = STAR THEN 1
                ELSE lex
           ELSE lex
      ELSE IF d = 1
      THEN IF n > m /\ CharAt(a, n - 1) = STAR
           THEN IF StartsWith(a, b) THEN -1 ELSE lex
           ELSE IF CharAt(b, n - 1) = STAR
                THEN IF StartsWith(b, a) THEN 1 ELSE lex
                ELSE lex
      ELSE lex

\* (a, b) => scopeCompare(a.roleId, b.roleId)
RoleCompare(a, b) == scopeCompare(a.roleId, b.roleId)

\* The compare function given to sort: RoleCompare where roles are sorted,
\* scopeCompare where scopes are
SortCompare(byRoleId, x, y) ==
  IF byRoleId THEN RoleCompare(x, y) ELSE scopeCompare(x, y)

\* Array.prototype.sort on a short array with a compare function, an
\* insertion sort: the element at i is moved left past every element that
\* compares greater; compare(x, y) > 0 means x belongs after y.
\* The array after the inner loop: the elements left of position i that
\* compare greater than element, contiguous from i - 1, move one right
InsertLeft(arr, i, byRoleId) ==
  LET element == arr[i]
      p == CHOOSE q \in 0..(i - 1) :
             /\ \A r \in (q + 1)..(i - 1) :
                  SortCompare(byRoleId, arr[r], element) > 0
             /\ (q = 0 \/ SortCompare(byRoleId, arr[q], element) <= 0)
  IN  [r \in 1..Len(arr) |->
         IF r <= p \/ r > i THEN arr[r]
         ELSE IF r = p + 1 THEN element
         ELSE arr[r - 1]]

ArraySort(arr, byRoleId) ==
  LET sorted[i \in 1..Len(arr)] ==
        IF i = 1 THEN arr ELSE InsertLeft(sorted[i - 1], i, byRoleId)
  IN  IF Len(arr) = 0 THEN arr ELSE sorted[Len(arr)]

\* sortScopesForMerge(scopes), scopes.sort(scopeCompare)
sortScopesForMerge(scopes) == ArraySort(scopes, FALSE)

\* The first index >= i of list whose scope does not start with prefix
RECURSIVE SkipPrefix(_, _, _)
SkipPrefix(list, i, prefix) ==
  IF i <= Len(list) /\ StartsWith(list[i], prefix)
  THEN SkipPrefix(list, i + 1, prefix)
  ELSE i

\* The cursor after scope was emitted: past everything a star scope covers
AfterEmit(list, i, scope) ==
  IF EndsWithStar(scope) THEN SkipPrefix(list, i, DropLast(scope)) ELSE i

\* mergeScopeSets with the cursors i, j (1-based) and the output so far
RECURSIVE MergeFrom(_, _, _, _, _)
MergeFrom(scopes1, scopes2, i, j, scopes) ==
  LET n == Len(scopes1)
      m == Len(scopes2)
  IN  IF i <= n /\ j <= m
      THEN LET s1 == scopes1[i]
               s2 == scopes2[j]
           IN  IF s1 = s2
               THEN MergeFrom(scopes1, scopes2,
                              AfterEmit(scopes1, i + 1, s1),
                              AfterEmit(scopes2, j + 1, s1),
                              Append(scopes, s1))
               ELSE IF scopeCompare(s1, s2) < 0
               THEN MergeFrom(scopes1, scopes2,
                              AfterEmit(scopes1, i + 1, s1),
                              AfterEmit(scopes2, j, s1),
                              Append(scopes, s1))
               ELSE MergeFrom(scopes1, scopes2,
                              AfterEmit(scopes1, i, s2),
                              AfterEmit(scopes2, j + 1, s2),
                              Append(scopes, s2))
      ELSE IF i <= n
      THEN MergeFrom(scopes1, scopes2,
                     AfterEmit(scopes1, i + 1, scopes1[i]), j,
                     Append(scopes, scopes1[i]))
      ELSE IF j <= m
      THEN MergeFrom(scopes1, scopes2, i,
                     AfterEmit(scopes2, j + 1, scopes2[j]),
                     Append(scopes, scopes2[j]))
      ELSE scopes

mergeScopeSets(scopes1, scopes2) == MergeFrom(scopes1, scopes2, 1, 1, <<>>)

\* normalizeScopeSet(scopes): merge of the sorted list with the empty list
normalizeScopeSet(scopes) == mergeScopeSets(scopes, <<>>)

\* a satisfies b: a = b, or a is a prefix scope whose prefix b starts with
Satisfies(a, b) == a = b \/ (EndsWithStar(a) /\ StartsWith(b, DropLast(a)))

\* The elements of a list, as a set
Range(list) == {list[i] : i \in 1..Len(list)}

\* ------------------------------------------------------------------------
\* Role recognizer: generateDFA, executeDFA, buildResolver
\*
\* A role is [roleId, scopes].  A DFA state is [default, end, next] with
\* next the transitions by character.  An entry of sets is [roles, link]:
\* the roles listed, then the roles of sets[link] (link = Undef for the
\* empty entry sets[0]).  Indexes into roles and sets are 0-based as in the
\* source; roles[j] of the source is roles[j + 1] here.
\* ------------------------------------------------------------------------

\* {default: d, end: e} without transitions
Leaf(d, e) == [default |-> d, end |-> e, next |-> <<>>]

\* state[c] = child
SetNext(next, c, child) == (c :> child) @@ next

\* sets.push(entry) - 1
PushIndex(sets) == Len(sets)

\* roles.slice(from, n)
RolesSlice(roles, from, n) ==
  IF from >= n THEN <<>> ELSE SubSeq(roles, from + 1, n)

\* The length of the longest roleId of roles
MaxIdLen(roles) ==
  IF Len(roles) = 0 THEN 0
  ELSE CHOOSE m \in {Len(roles[q].roleId) : q \in 1..Len(roles)} :
         \A q \in 1..Len(roles) : Len(roles[q].roleId) <= m

RECURSIVE generateDFA(_, _, _, _, _, _)
RECURSIVE PartitionLoop(_, _, _, _, _, _, _, _, _, _, _)

\* The while loop of generateDFA over roles[j..n): a child state for each
\* run of roles with the same character at k.  Returns the loop variables.
PartitionLoop(roles, j, n, k, implied, current, start, splitCount, next, sets, thrown) ==
  IF j >= n
  THEN [current |-> current, start |-> start, splitCount |-> splitCount,
        next |-> next, sets |-> sets, thrown |-> thrown]
  ELSE LET c == CharAt(roles[j + 1].roleId, k)
       IN  IF c # current
           THEN LET sub == generateDFA(roles, start, j, k + 1, sets, implied)
                IN  PartitionLoop(roles, j + 1, n, k, implied, c, j,
                                  splitCount + 1,
                                  SetNext(next, current, sub.state), sub.sets,
                                  thrown \/ sub.thrown)
           ELSE PartitionLoop(roles, j + 1, n, k, implied, current, start,
                              splitCount, next, sets, thrown)

\* generateDFA(roles, i, n, k, sets, implied): [state, sets, thrown].
\* Below the longest roleId no role of a non-empty range is a prefix or a
\* terminal role and every role has the character undefined: the call
\* repeats itself with k + 1 until the call stack is exhausted (thrown).
generateDFA(roles, i, n, k, sets, implied) ==
  IF i >= n
  THEN [state |-> Leaf(implied, implied), sets |-> sets, thrown |-> FALSE]
  ELSE IF k > MaxIdLen(roles)
  THEN [state |-> Leaf(implied, implied), sets |-> sets, thrown |-> TRUE]
  ELSE
  LET role0 == roles[i + 1]
      isPrefix == CharAt(role0.roleId, k) = STAR /\ Len(role0.roleId) = k + 1
      \* after the prefix role, if any
      sets1 == IF isPrefix
               THEN Append(sets, [roles |-> <<role0.roleId>>, link |-> implied])
               ELSE sets
      implied1 == IF isPrefix THEN PushIndex(sets) ELSE implied
      j1 == IF isPrefix THEN i + 1 ELSE i
  IN
  IF j1 >= n
  THEN [state |-> [default |-> implied1, end |-> implied1,
                   next |-> SetNext(<<>>, STAR, Leaf(implied1, implied1))],
        sets |-> sets1, thrown |-> FALSE]
  ELSE
  LET role1 == roles[j1 + 1]
      afterImplied == j1
      isTerminal == Len(role1.roleId) = k
      \* after the terminal role, if any
      sets2 == IF isTerminal
               THEN Append(sets1, [roles |-> <<role1.roleId>>, link |-> implied1])
               ELSE sets1
      end2 == IF isTerminal THEN PushIndex(sets1) ELSE implied1
      j2 == IF isTerminal THEN j1 + 1 ELSE j1
      split2 == IF isTerminal THEN 1 ELSE 0
  IN
  IF j2 >= n
  THEN [state |-> [default |-> implied1, end |-> end2,
                   next |-> SetNext(<<>>, STAR, Leaf(implied1, end2))],
        sets |-> sets2, thrown |-> FALSE]
  ELSE
  LET role2 == roles[j2 + 1]
      loop == PartitionLoop(roles, j2, n, k, implied1,
                            CharAt(role2.roleId, k), j2, split2, <<>>, sets2,
                            FALSE)
      last == generateDFA(roles, loop.start, n, k + 1, loop.sets, implied1)
      next3 == SetNext(loop.next, loop.current, last.state)
      star == IF STAR \in DOMAIN next3 THEN next3[STAR]
              ELSE Leaf(implied1, Undef)
      shared == loop.splitCount = 0
      starEnd == IF shared THEN next3[loop.current].next[STAR].end
                 ELSE PushIndex(last.sets)
      sets4 == IF shared THEN last.sets
               ELSE Append(last.sets,
                      [roles |-> [q \in 1..(n - afterImplied) |->
                                    roles[afterImplied + q].roleId],
                       link |-> implied1])
  IN  IF loop.thrown \/ last.thrown
      THEN [state |-> Leaf(implied1, end2), sets |-> last.sets,
            thrown |-> TRUE]
      ELSE [state |-> [default |-> implied1, end |-> end2,
                       next |-> SetNext(next3, STAR,
                                        [star EXCEPT !.end = starEnd])],
            sets |-> sets4, thrown |-> FALSE]

\* executeDFA(state, scope, depth)
RECURSIVE executeDFA(_, _, _)
executeDFA(state, scope, depth) ==
  IF state.end # Undef /\ Len(scope) = depth
  THEN state.end
  ELSE IF CharAt(scope, depth) \in DOMAIN state.next
  THEN executeDFA(state.next[CharAt(scope, depth)], scope, depth + 1)
  ELSE IF state.default = Undef THEN 0 ELSE state.default

\* roles.sort((a, b) => scopeCompare(a.roleId, b.roleId))
SortRoles(roles) == ArraySort(roles, TRUE)

\* buildResolver(roles): the sorted roles, the DFA and sets; thrown when
\* generateDFA exhausted the call stack (a RangeError)
buildResolver(roles) ==
  LET sorted == SortRoles(roles)
      g == generateDFA(sorted, 0, Len(sorted), 0,
                       <<[roles |-> <<>>, link |-> Undef]>>, 0)
  IN  [roles |-> sorted, dfa |-> g.state, sets |-> g.sets,
       thrown |-> g.thrown]

\* The resolver closure returned by buildResolver: scope -> index into sets
ResolverIndex(dfa, scope) ==
  IF StartsWith(scope, AssumeColon)
  THEN executeDFA(dfa, SliceFrom(scope, 7), 0)
  ELSE IF EndsWithStar(scope) /\ StartsWith(AssumeWord, DropLast(scope))
  THEN executeDFA(dfa, <<STAR>>, 0)
  ELSE 0

\* The roleIds of sets[index], through the back-references
RECURSIVE FlattenSet(_, _)
FlattenSet(sets, index) ==
  LET entry == sets[index + 1]
  IN  Range(entry.roles) \cup
      (IF entry.link = Undef THEN {} ELSE FlattenSet(sets, entry.link))

\* ------------------------------------------------------------------------
\* Fixed point: computeFixedPoint
\*
\* Roles are identified by roleId: impliedRoles, seen and expandedScopes are
\* functions of the roleId.
\* ------------------------------------------------------------------------

\* The roleIds of sets[index] in the order forEach meets them: the roles of
\* the entry, then those behind its back-reference
RECURSIVE FlattenList(_, _)
FlattenList(sets, index) ==
  LET entry == sets[index + 1]
  IN  entry.roles \o
      (IF entry.link = Undef THEN <<>> ELSE FlattenList(sets, entry.link))

\* impliedRoles with each role of list pushed unless included already or R
RECURSIVE PushImplied(_, _, _, _)
PushImplied(impliedRoles, list, q, R) ==
  IF q > Len(list) THEN impliedRoles
  ELSE PushImplied(
         IF list[q] \in Range(impliedRoles) \/ list[q] = R
         THEN impliedRoles ELSE Append(impliedRoles, list[q]),
         list, q + 1, R)

\* R.scopes.forEach(scope => expandImpliedRoles(resolver(scope)))
RECURSIVE ImpliedRolesFrom(_, _, _, _, _)
ImpliedRolesFrom(built, R, scopes, q, impliedRoles) ==
  IF q > Len(scopes) THEN impliedRoles
  ELSE ImpliedRolesFrom(built, R, scopes, q + 1,
         PushImplied(impliedRoles,
                     FlattenList(built.sets, ResolverIndex(built.dfa, scopes[q])),
                     1, R))

\* traveseImpliedRoles(R) from the q-th implied role on, with scopes as
\* merged so far: [scopes, seen].  ctx holds iteration, impliedRoles, the
\* direct scopes, the roles whose expandedScopes earlier iterations set
\* (expanded) and those expandedScopes.
RECURSIVE TraverseFrom(_, _, _, _, _)
TraverseFrom(R, q, scopes, seen, ctx) ==
  IF q > Len(ctx.impliedRoles[R])
  THEN [scopes |-> scopes, seen |-> seen]
  ELSE LET r == ctx.impliedRoles[R][q]
       IN  IF seen[r] < ctx.iteration
           THEN LET seen1 == [seen EXCEPT ![r] = ctx.iteration]
                IN  IF r \in ctx.expanded
                    THEN TraverseFrom(R, q + 1,
                           mergeScopeSets(scopes, ctx.expandedScopes[r]),
                           seen1, ctx)
                    ELSE LET sub == TraverseFrom(r, 1, ctx.scopes[r], seen1, ctx)
                         IN  TraverseFrom(R, q + 1,
                               mergeScopeSets(scopes, sub.scopes),
                               sub.seen, ctx)
           ELSE TraverseFrom(R, q + 1, scopes, seen, ctx)

\* for (let R of _.shuffle(roles)): order is the shuffled list of roleIds,
\* it the iteration about to run.  Returns expandedScopes.
RECURSIVE ExpandLoop(_, _, _, _, _, _)
ExpandLoop(order, it, seen, expandedScopes, impliedRoles, direct) ==
  IF it > Len(order) THEN expandedScopes
  ELSE LET R == order[it]
           t == TraverseFrom(R, 1, direct[R], [seen EXCEPT ![R] = it],
                             [iteration |-> it, impliedRoles |-> impliedRoles,
                              scopes |-> direct,
                              expanded |-> {order[q] : q \in 1..(it - 1)},
                              expandedScopes |-> expandedScopes])
       IN  ExpandLoop(order, it + 1, t.seen,
                      [expandedScopes EXCEPT ![R] = t.scopes],
                      impliedRoles, direct)

\* scopes merged with the expandedScopes of each role of list, in order
RECURSIVE MergeRoles(_, _, _, _)
MergeRoles(scopes, list, q, expandedScopes) ==
  IF q > Len(list) THEN scopes
  ELSE MergeRoles(mergeScopeSets(scopes, expandedScopes[list[q]]),
                  list, q + 1, expandedScopes)

\* scopeSets[0..i]: entry i merges its roles' expandedScopes, then
\* scopeSets[link]
RECURSIVE ScopeSetsUpTo(_, _, _)
ScopeSetsUpTo(sets, i, expandedScopes) ==
  IF i < 0 THEN <<>>
  ELSE LET before == ScopeSetsUpTo(sets, i - 1, expandedScopes)
           entry == sets[i + 1]
           own == MergeRoles(<<>>, entry.roles, 1, expandedScopes)
       IN  Append(before,
                  IF entry.link = Undef THEN own
                  ELSE mergeScopeSets(own, before[entry.link + 1]))

\* for (let R of roles) R.scopes.sort(scopeCompare)
SortRoleScopes(roles) ==
  [q \in 1..Len(roles) |-> [roles[q] EXCEPT !.scopes = sortScopesForMerge(@)]]

\* R.scopes for each role R of the sorted roles, by roleId
DirectScopes(roles) ==
  [id \in {roles[q].roleId : q \in 1..Len(roles)} |->
     roles[CHOOSE q \in 1..Len(roles) : roles[q].roleId = id].scopes]

\* R.impliedRoles for each role R: the roles its scopes reach directly
ImpliedRoles(built, direct) ==
  [id \in DOMAIN direct |-> ImpliedRolesFrom(built, id, direct[id], 1, <<>>)]

\* The loop over the shuffled roles from the first, no role seen and no
\* expandedScopes set
ExpandRoles(order, direct, impliedRoles) ==
  ExpandLoop(order, 1, [id \in DOMAIN direct |-> 0],
             [id \in DOMAIN direct |-> <<>>], impliedRoles, direct)

\* What computeFixedPoint leaves once every role has its expandedScopes:
\* sets.map(...) gives scopeSets
FixedPoint(built, expandedScopes) ==
  [thrown |-> FALSE, roles |-> built.roles, dfa |-> built.dfa,
   sets |-> built.sets, expandedScopes |-> expandedScopes,
   scopeSets |-> ScopeSetsUpTo(built.sets, Len(built.sets) - 1,
                               expandedScopes)]

\* computeFixedPoint after buildResolver(roles) returned, or threw
ExpandBuilt(built, order, direct) ==
  IF built.thrown
  THEN [thrown |-> TRUE]
  ELSE FixedPoint(built,
         ExpandRoles(order, direct, ImpliedRoles(built, direct)))

\* let {resolver, sets} = buildResolver(roles) and what follows it
FixedPointOf(built, order) == ExpandBuilt(built, order, DirectScopes(built.roles))

\* computeFixedPoint(roles) when the shuffle yields the roleIds in order:
\* the sorted roles, their expandedScopes, scopeSets and the recognizer
computeFixedPoint(roles, order) ==
  FixedPointOf(buildResolver(SortRoleScopes(roles)), order)

\* The resolver computeFixedPoint returns: scope -> scopeSets[resolver(scope)]
FixedResolver(fixed, scope) ==
  fixed.scopeSets[ResolverIndex(fixed.dfa, scope) + 1]

\* ------------------------------------------------------------------------
\* ScopeResolver.buildResolver and the resolver it returns
\* ------------------------------------------------------------------------

\* roles.map(({roleId, scopes}) => ({pattern: `assume:${roleId}`, scopes}))
RulesOf(roles) ==
  [q \in 1..Len(roles) |->
     [pattern |-> AssumeColon \o roles[q].roleId, scopes |-> roles[q].scopes]]

\* generateTrie(rules): the recognizer of the rules' patterns
generateTrie(rules) == rules

\* pattern matches scope: equal, or scope a prefix scope covering pattern,
\* or pattern a prefix pattern covering scope
PatternMatches(pattern, scope) ==
  \/ scope = pattern
  \/ EndsWithStar(scope) /\ StartsWith(pattern, DropLast(scope))
  \/ EndsWithStar(pattern) /\ StartsWith(scope, DropLast(pattern))

\* executeTrie(trie, scope): the scope lists of the rules scope matches, in
\* the order of the rules
RECURSIVE executeTrieFrom(_, _, _)
executeTrieFrom(trie, scope, q) ==
  IF q > Len(trie) THEN <<>>
  ELSE (IF PatternMatches(trie[q].pattern, scope)
        THEN <<trie[q].scopes>> ELSE <<>>)
       \o executeTrieFrom(trie, scope, q + 1)

executeTrie(trie, scope) == executeTrieFrom(trie, scope, 1)

\* The strings the group (:?|a|as|ass|assu|assum|assum|assume) matches
AssumePrefixInner ==
  {<<>>, <<COLON>>} \cup {SubSeq(AssumeWord, 1, k) : k \in 1..Len(AssumeWord)}

\* A test that admits only scopes that start with 'assume:'
AssumeColonOnly(scope) == StartsWith(scope, AssumeColon)

\* assumePrefix.test(scope) for
\* /^(:?(:?|a|as|ass|assu|assum|assum|assume)\*$|assume:)/
assumePrefixTest(scope) ==
  \/ StartsWith(scope, AssumeColon)
  \/ /\ EndsWithStar(scope)
     /\ \/ DropLast(scope) \in AssumePrefixInner
        \/ /\ CharAt(scope, 0) = COLON
           /\ SliceFrom(DropLast(scope), 1) \in AssumePrefixInner

\* _.flatten(lists)
RECURSIVE Flatten(_)
Flatten(lists) ==
  IF Len(lists) = 0 THEN <<>> ELSE Head(lists) \o Flatten(Tail(lists))

\* list.filter(e => e): the empty string is falsy
RECURSIVE FilterTruthy(_)
FilterTruthy(list) ==
  IF Len(list) = 0 THEN <<>>
  ELSE (IF Head(list) = <<>> THEN <<>> ELSE <<Head(list)>>)
       \o FilterTruthy(Tail(list))

\* The while loop of the resolver from index i (0-based): the work list and
\* whether it is a new array (concat) or still the caller's
RECURSIVE ResolveLoop(_, _, _, _, _)
ResolveLoop(trie, scopes, i, seen, copied) ==
  IF i >= Len(scopes)
  THEN [scopes |-> scopes, copied |-> copied]
  ELSE LET scope == scopes[i + 1]
       IN  IF ~assumePrefixTest(scope) \/ scope \in seen
           THEN ResolveLoop(trie, scopes, i + 1, seen, copied)
           ELSE ResolveLoop(trie,
                  scopes \o FilterTruthy(Flatten(executeTrie(trie, scope))),
                  i + 1, seen \cup {scope}, TRUE)

\* The resolver (inputs) => ... returned by buildResolver: the list it
\* returns and the caller's list after the call (sorted in place when the
\* work list never became a new array)
Resolver(trie, inputs) ==
  LET loop == ResolveLoop(trie, inputs, 0, {}, FALSE)
      sorted == ArraySort(loop.scopes, FALSE)
  IN  [inputs |-> inputs,
       result |-> normalizeScopeSet(sorted),
       after |-> IF loop.copied THEN inputs ELSE sorted]

\* ScopeResolver.buildResolver(roles): the closure, holding the trie
ScopeResolverBuild(roles) == [dfa |-> generateTrie(RulesOf(roles))]

\* ------------------------------------------------------------------------
\* Inputs
\* ------------------------------------------------------------------------

\* Longest roleId given to the recognizer
MaxRoleIdLen == 3

\* Most roles given to the recognizer
MaxTrieRoles == 2

\* Characters of roleIds: one below '*', '*' itself, one above
TrieAlphabet == {LPAREN, STAR, CH_a}

\* The strings over alphabet of length at most n
Strings(alphabet, n) == UNION {[1..k -> alphabet] : k \in 0..n}

\* The lists of at most n distinct elements of S, in every order
DistinctLists(S, n) ==
  {l \in UNION {[1..k -> S] : k \in 0..n} :
     \A i, j \in 1..Len(l) : i # j => l[i] # l[j]}

TrieRoleIds == Strings(TrieAlphabet, MaxRoleIdLen)

\* Scopes given to the recognizer: 'assume:' + t, prefixes of 'assume' with
\* a star, and scopes outside the assume: namespace
TrieScopes ==
  {AssumeColon \o t : t \in Strings(TrieAlphabet, MaxRoleIdLen)}
  \cup {<<STAR>>, <<CH_a, STAR>>, <<CH_a, CH_s, CH_s, STAR>>,
        AssumeWord \o <<STAR>>, <<CH_x>>, <<CH_x, STAR>>, <<>>}

\* Most roles given to computeFixedPoint
MaxFixRoles == 3

\* Most direct scopes of a role
MaxRoleScopes == 2

\* 'assume:' + id
Assume(id) == AssumeColon \o id

\* roleIds given to computeFixedPoint: 'a', 'b' and the prefix role 'x*'
FixRoleIds == {<<CH_a>>, <<CH_b>>, <<CH_x, STAR>>}

\* Direct scopes of roles: assume: scopes for each role (the prefix role
\* through 'assume:x('), a plain scope and a prefix scope covering it
FixScopes ==
  {Assume(<<CH_a>>), Assume(<<CH_b>>), Assume(<<CH_x, LPAREN>>),
   <<CH_b>>, <<CH_b, STAR>>}

\* The lists of direct scopes a role may have, each in ascending order
\* (computeFixedPoint sorts them first)
FixScopeLists ==
  {l \in DistinctLists(FixScopes, MaxRoleScopes) :
     \A i, j \in 1..Len(l) : i < j => StrLt(l[i], l[j])}

\* The lists of at most MaxFixRoles roleIds given to computeFixedPoint
FixIdLists ==
  {l \in DistinctLists(FixRoleIds, MaxFixRoles) :
     \A i, j \in 1..Len(l) : i < j => StrLt(l[i], l[j])}

\* Scopes given to the resolver computeFixedPoint returns
FixResolveScopes == {Assume(<<CH_a>>), <<STAR>>}

\* The orders in which a shuffle may yield the roles
Shuffles(roles) ==
  {o \in [1..Len(roles) -> {roles[q].roleId : q \in 1..Len(roles)}] :
     \A i, j \in 1..Len(roles) : i # j => o[i] # o[j]}

\* Most roles of a ScopeResolver
MaxResRoles == 2

\* Most direct scopes of a role of a ScopeResolver
MaxResRoleScopes == 1

\* Longest list given to resolve
MaxInputs == 2

\* roleIds of a ScopeResolver: 'a', 'b' and the prefix role 'a*'
ResRoleIds == {<<CH_a>>, <<CH_b>>, <<CH_a, STAR>>}

\* Direct scopes of its roles: the empty scope, a plain scope and assume:
\* scopes
ResRoleScopes == {<<>>, <<CH_b>>, Assume(<<CH_a>>), Assume(<<CH_b>>)}

ResRoleScopeLists == DistinctLists(ResRoleScopes, MaxResRoleScopes)

\* The lists of at most MaxResRoles roleIds, each in ascending order
ResIdLists ==
  {l \in DistinctLists(ResRoleIds, MaxResRoles) :
     \A i, j \in 1..Len(l) : i < j => StrLt(l[i], l[j])}

\* Scopes given to resolve: assume: scopes, exact and with a wildcard,
\* wildcards that cover the assume: namespace, and scopes outside it: 'b',
\* 'b*', and 'b*(' which 'b*' covers
ResInputScopes ==
  {Assume(<<CH_a>>), Assume(<<CH_a, STAR>>), <<CH_a, CH_s, CH_s, STAR>>,
   <<STAR>>, <<CH_b>>, <<CH_b, STAR>>, <<CH_b, STAR, LPAREN>>}

\* The lists given to resolve: any order, scopes may repeat
ResInputs == UNION {[1..k -> ResInputScopes] : k \in 0..MaxInputs}

\* Longest list given to mergeScopeSets
MaxMergeLen == 2

\* Scopes of the lists given to mergeScopeSets: '*', 'a', 'b', 'ba', the
\* prefix scope 'b*' and 'b*(' which it covers
MergeScopes ==
  {<<STAR>>, <<CH_a>>, <<CH_b>>, <<CH_b, CH_a>>, <<CH_b, STAR>>,
   <<CH_b, STAR, LPAREN>>}

\* Reload operations requested of one ScopeResolver
MaxReloads == 2

\* Writes made to the Role and Client tables while the service runs
MaxWrites == 1

\* 'client-id:'
ClientIdPrefix == <<99, 108, 105, 101, 110, 116, 45, 105, 100, COLON>>

\* The role that holds the scopes of the client clientId: 'client-id:' +
\* clientId
ClientIdRole(clientId) == ClientIdPrefix \o clientId

\* roleIds of the Role table, in the order a scan returns them: 'a' and
\* 'client-id:x'
RelRoleOrder == <<(<<CH_a>>), ClientIdRole(<<CH_x>>)>>

RelRoleIds == Range(RelRoleOrder)

\* clientIds of the Client table, in the order a scan returns them: 'u', 'x'
RelClientOrder == <<(<<CH_u>>), (<<CH_x>>)>>

RelClientIds == Range(RelClientOrder)

\* Scopes a role of the table can have: ['b']
RelRoleScopeLists == {<<(<<CH_b>>)>>}

\* Scopes a client of the table can have: ['assume:a'] or ['b*', 'b*(']
RelClientScopeLists ==
  {<<Assume(<<CH_a>>)>>, <<(<<CH_b, STAR>>), (<<CH_b, STAR, LPAREN>>)>>}

\* Last tick of the clock
MaxNow == 4

\* Calls of loadClient
MaxCalls == 2

\* expires of a client that expires while the clock runs: before the last
\* tick
EarlyExpiry == MaxNow - 1

\* maxLastUsedDelay, in ticks of the clock: '-6h' by default
LastUsedDelay == 1

\* expires of a client that does not expire while the clock runs
NoExpiry == MaxNow + 1

\* A row of a table: absent, or an entity with its fields
RoleRows == {None} \cup {[scopes |-> l] : l \in RelRoleScopeLists}

\* A client as the API creates it: enabled, lastDateUsed the time of its
\* creation
CreatedClient(scopes, time) ==
  [scopes |-> scopes, disabled |-> FALSE, expires |-> NoExpiry,
   lastDateUsed |-> time]

ClientRows ==
  {None} \cup {CreatedClient(l, 0) : l \in RelClientScopeLists}

\* The clients that loadClient is called for: absent, or with scopes
\* ['assume:a'], enabled or disabled, expiring early or not at all
LdClientRows ==
  {None} \cup
  {[scopes |-> <<Assume(<<CH_a>>)>>, disabled |-> d, expires |-> e,
    lastDateUsed |-> 0] : d \in BOOLEAN, e \in {EarlyExpiry, NoExpiry}}

\* ------------------------------------------------------------------------
\* Specification of the recognizer: build it from a role list, then run it
\* on scopes
\* ------------------------------------------------------------------------

TrieIdle ==
  /\ tRoles = <<>>
  /\ tBuilt = None
  /\ tRun = None

ResIdle ==
  /\ rRoles = <<>>
  /\ rRules = None
  /\ rFirst = None
  /\ rSecond = None

MrgIdle ==
  /\ mScopes1 = <<>>
  /\ mScopes2 = <<>>
  /\ mMerged = None

CallIdle ==
  /\ args = None
  /\ ret = None

FixIdle ==
  /\ fRoles = <<>>
  /\ fOrder = <<>>
  /\ fFixed = None
  /\ fRun = None

\* No call of loadClient yet
LdIdle ==
  /\ now = 0
  /\ held = None
  /\ updates = <<>>
  /\ errors = 0

\* The ScopeResolver as its constructor leaves it, over empty tables
RelIdle ==
  /\ Role = [r \in RelRoleIds |-> None]
  /\ Client = [c \in RelClientIds |-> None]
  /\ _roles = <<>>
  /\ _clients = <<>>
  /\ _clientCache = [c \in RelClientIds |-> None]
  /\ _resolver = None
  /\ reloads = <<>>
  /\ writes = 0
  /\ written = [e \in RelRoleIds \cup RelClientIds |-> 0]
  /\ LdIdle

InitTrie ==
  /\ FixIdle
  /\ ResIdle
  /\ RelIdle
  /\ MrgIdle
  /\ CallIdle
  /\ tRoles \in {[i \in 1..Len(ids) |-> [roleId |-> ids[i], scopes |-> <<>>]] :
                   ids \in DistinctLists(TrieRoleIds, MaxTrieRoles)}
  /\ tBuilt = None
  /\ tRun = None

\* let {resolver, sets} = buildResolver(roles)
BuildTrie ==
  /\ tBuilt = None
  /\ tBuilt' = buildResolver(tRoles)
  /\ UNCHANGED <<tRoles, tRun, fixVars, resVars, relVars, mrgVars, callVars>>

\* resolver(scope)
ExecuteTrie ==
  /\ tBuilt # None
  /\ ~tBuilt.thrown
  /\ \E s \in TrieScopes :
       tRun' = [scope |-> s, index |-> ResolverIndex(tBuilt.dfa, s)]
  /\ UNCHANGED <<tRoles, tBuilt, fixVars, resVars, relVars, mrgVars, callVars>>

NextTrie == BuildTrie \/ ExecuteTrie

SpecTrie == InitTrie /\ [][NextTrie]_vars

\* The roles that a scope s must match: assume:<roleId> = s, s a prefix
\* scope covering assume:<roleId>, or roleId a prefix role covering s
GrantedRoleIds(roles, s) ==
  {roles[i].roleId : i \in {i \in 1..Len(roles) :
     LET pattern == AssumeColon \o roles[i].roleId
     IN  \/ s = pattern
         \/ EndsWithStar(s) /\ StartsWith(pattern, DropLast(s))
         \/ EndsWithStar(pattern) /\ StartsWith(s, DropLast(pattern))}}

\* C1: the roles reached from the index the recognizer returns for a scope
\* are exactly the roles the scope matches, for every role list and scope.
C1_TrieCorrect ==
  /\ tBuilt # None => ~tBuilt.thrown
  /\ tRun # None =>
       FlattenSet(tBuilt.sets, tRun.index) = GrantedRoleIds(tRoles, tRun.scope)

\* ------------------------------------------------------------------------
\* Specification of the fixed point: compute it for a role list under some
\* shuffle, then use the resolver it returns
\* ------------------------------------------------------------------------

InitFix ==
  /\ TrieIdle
  /\ ResIdle
  /\ RelIdle
  /\ MrgIdle
  /\ CallIdle
  /\ \E l \in FixIdLists :
       \E sc \in [1..Len(l) -> FixScopeLists] :
         fRoles = [i \in 1..Len(l) |-> [roleId |-> l[i], scopes |-> sc[i]]]
  /\ fOrder = <<>>
  /\ fFixed = None
  /\ fRun = None

\* let resolver = computeFixedPoint(roles)
ComputeFixedPoint ==
  /\ fFixed = None
  /\ \E order \in Shuffles(fRoles) :
       /\ fOrder' = order
       /\ fFixed' = computeFixedPoint(fRoles, order)
  /\ UNCHANGED <<fRoles, fRun, trieVars, resVars, relVars, mrgVars, callVars>>

\* resolver(scope)
FixedResolve ==
  /\ fFixed # None
  /\ ~fFixed.thrown
  /\ \E s \in FixResolveScopes :
     fRun' = [scope |-> s, scopes |-> FixedResolver(fFixed, s)]
  /\ UNCHANGED <<fRoles, fOrder, fFixed, trieVars, resVars, relVars, mrgVars, callVars>>

NextFix == ComputeFixedPoint \/ FixedResolve

SpecFix == InitFix /\ [][NextFix]_vars

\* result is a normalization of the scope set U: scopes of U that satisfy
\* every scope of U, none satisfied by another
IsNormalizationOf(result, U) ==
  /\ result \subseteq U
  /\ \A u \in U : \E s \in result : Satisfies(s, u)
  /\ \A s1, s2 \in result : s1 # s2 => ~Satisfies(s1, s2)

\* The direct scopes of the role with roleId id
ScopesOf(roles, id) ==
  UNION {Range(roles[q].scopes) : q \in {q \in 1..Len(roles) : roles[q].roleId = id}}

\* C2: after computeFixedPoint every role's expandedScopes is, as a set, the
\* normalization of its direct scopes united with the expandedScopes of
\* every role one of its scopes matches.
C2_FixedPoint ==
  fFixed # None =>
    /\ ~fFixed.thrown
    /\ \A q \in 1..Len(fRoles) :
         IsNormalizationOf(
           Range(fFixed.expandedScopes[fRoles[q].roleId]),
           Range(fRoles[q].scopes) \cup
             UNION {Range(fFixed.expandedScopes[id]) :
                      id \in UNION {GrantedRoleIds(fRoles, s) :
                                      s \in Range(fRoles[q].scopes)}})

\* ------------------------------------------------------------------------
\* Specification of the resolver: build it for a role list, call it on a
\* list, then on a second list or on its own result
\* ------------------------------------------------------------------------

InitRes ==
  /\ TrieIdle
  /\ FixIdle
  /\ RelIdle
  /\ MrgIdle
  /\ CallIdle
  /\ \E l \in ResIdLists :
       \E sc \in [1..Len(l) -> ResRoleScopeLists] :
         rRoles = [i \in 1..Len(l) |-> [roleId |-> l[i], scopes |-> sc[i]]]
  /\ rRules = None
  /\ rFirst = None
  /\ rSecond = None

\* this._resolver = this.buildResolver(roles)
BuildResolver ==
  /\ rRules = None
  /\ rRules' = ScopeResolverBuild(rRoles)
  /\ UNCHANGED <<rRoles, rFirst, rSecond, trieVars, fixVars, relVars, mrgVars, callVars>>

\* resolve(S)
ResolveFirst ==
  /\ rRules # None
  /\ rFirst = None
  /\ \E S \in ResInputs : rFirst' = Resolver(rRules.dfa, S)
  /\ UNCHANGED <<rRoles, rRules, rSecond, trieVars, fixVars, relVars, mrgVars, callVars>>

\* every scope of S is satisfied by some scope of T
Covers(T, S) == \A s \in S : \E t \in T : Satisfies(t, s)

\* resolve(T) for a list T that covers the first list
ResolveCovering ==
  /\ rFirst # None
  /\ rSecond = None
  /\ \E T \in ResInputs :
       /\ Covers(Range(T), Range(rFirst.inputs))
       /\ rSecond' = Resolver(rRules.dfa, T)
  /\ UNCHANGED <<rRoles, rRules, rFirst, trieVars, fixVars, relVars, mrgVars, callVars>>

\* resolve(resolve(S))
ResolveAgain ==
  /\ rFirst # None
  /\ rSecond = None
  /\ rSecond' = Resolver(rRules.dfa, rFirst.result)
  /\ UNCHANGED <<rRoles, rRules, rFirst, trieVars, fixVars, relVars, mrgVars, callVars>>

NextRes == BuildResolver \/ ResolveFirst \/ ResolveCovering \/ ResolveAgain

SpecRes == InitRes /\ [][NextRes]_vars

IsNormalized(list) ==
  \A i, j \in 1..Len(list) : i # j => ~Satisfies(list[i], list[j])

\* C5: the list resolve returns is normalized.
C5_ResolveNormalized ==
  rFirst # None => IsNormalized(rFirst.result)

\* The roles of the resolver that a scope matches
MatchedRoles(scope) ==
  {q \in 1..Len(rRoles) :
     PatternMatches(AssumeColon \o rRoles[q].roleId, scope)}

\* The scopes resolve must account for: the inputs and, closed under
\* expansion, the direct scopes of every role one of them matches
RECURSIVE AuthorityOf(_, _)
AuthorityOf(scopes, n) ==
  IF n = 0 THEN scopes
  ELSE AuthorityOf(
         scopes \cup UNION {Range(rRoles[q].scopes) :
                              q \in UNION {MatchedRoles(s) : s \in scopes}},
         n - 1)

\* C6: every input scope and every direct scope of every role matched by
\* an input or by an expanded scope is satisfied by the result.
C6_ResolveKeepsAuthority ==
  rFirst # None =>
     Covers(Range(rFirst.result),
            AuthorityOf(Range(rFirst.inputs), Len(rRoles) + 1))

\* C18: a call of resolve leaves the caller's list as it was, in elements
\* and in order (the roles and the trie are not written by the resolver:
\* ResolveFirst, ResolveCovering and ResolveAgain leave rRoles and rRules).
C18_ResolvePure ==
  /\ rFirst # None => rFirst.after = rFirst.inputs
  /\ rSecond # None => rSecond.after = rSecond.inputs

\* ------------------------------------------------------------------------
\* Specification of mergeScopeSets: two sorted, normalized lists are merged
\* ------------------------------------------------------------------------

\* list is sorted by scopeCompare: each member sorts before the later ones
IsSorted(list) ==
  \A i, j \in 1..Len(list) : i < j => scopeCompare(list[i], list[j]) < 0

\* The lists given to mergeScopeSets: sorted by scopeCompare and normalized
MergeInputs ==
  {l \in DistinctLists(MergeScopes, MaxMergeLen) :
     IsSorted(l) /\ IsNormalized(l)}

InitMerge ==
  /\ TrieIdle
  /\ FixIdle
  /\ ResIdle
  /\ RelIdle
  /\ CallIdle
  /\ mScopes1 \in MergeInputs
  /\ mScopes2 \in MergeInputs
  /\ mMerged = None

\* mergeScopeSets(scopes1, scopes2)
Merge ==
  /\ mMerged = None
  /\ mMerged' = [scopes |-> mergeScopeSets(mScopes1, mScopes2)]
  /\ UNCHANGED <<mScopes1, mScopes2, trieVars, fixVars, resVars, relVars,
                 callVars>>

\* mergeScopeSets(scopes2, scopes1): the same two lists, the other way round
MergeSwapped ==
  /\ ret = None
  /\ ret' = [scopes |-> mergeScopeSets(mScopes2, mScopes1)]
  /\ UNCHANGED <<args, mrgVars, trieVars, fixVars, resVars, relVars>>

NextMerge == Merge \/ MergeSwapped

SpecMerge == InitMerge /\ [][NextMerge]_vars

\* The scopes of U that no different scope of U satisfies
Unsatisfied(U) == {s \in U : ~\E t \in U : t # s /\ Satisfies(t, s)}

\* C20: for sorted, normalized A and B, mergeScopeSets(A, B) is sorted by
\* scopeCompare, normalized, and holds exactly the scopes of A and B that no
\* different scope of A or B satisfies.
C20_MergeCorrect ==
  mMerged # None =>
    /\ IsSorted(mMerged.scopes)
    /\ IsNormalized(mMerged.scopes)
    /\ Range(mMerged.scopes) = Unsatisfied(Range(mScopes1) \cup Range(mScopes2))

\* ------------------------------------------------------------------------
\* ScopeResolver: _rebuildResolver, _syncReload and the three reloaders
\* ------------------------------------------------------------------------

\* The client of _clients after the body of the loop of _rebuildResolver:
\* expandedScopes is what this.resolve(client.unexpandedScopes) returned
\* (run.result), and unexpandedScopes is as the call left it (run.after)
RebuiltClient(client, run) ==
  [client EXCEPT !.unexpandedScopes = run.after,
                 !.expandedScopes = run.result]

RECURSIVE RebuildClients(_, _, _, _)

\* this._clientCache[client.clientId] = client, then the next client
StoreClient(resolver, clients, q, cache, client) ==
  RebuildClients(resolver, [clients EXCEPT ![q] = client], q + 1,
                 [cache EXCEPT ![client.clientId] = client])

\* The loop of _rebuildResolver from client q (1-based): each client is
\* resolved and stored in the cache under its clientId
RebuildClients(resolver, clients, q, cache) ==
  IF q > Len(clients)
  THEN [clients |-> clients, clientCache |-> cache]
  ELSE StoreClient(resolver, clients, q, cache,
         RebuiltClient(clients[q],
                       Resolver(resolver.dfa, clients[q].unexpandedScopes)))

\* _rebuildResolver() over this._roles and this._clients: the new
\* _resolver, the clients as the loop leaves them and the new _clientCache
_rebuildResolver(roles, clients) ==
  [roles |-> roles, resolver |-> ScopeResolverBuild(roles)]
  @@ RebuildClients(ScopeResolverBuild(roles), clients, 1,
                    [c \in RelClientIds |-> None])

\* Promise.resolve().then(reloader): the reloader is not chained to
\* _reloadDone
SyncReloadUnchained(predecessor) == "run"

\* this._reloadDone.then(reloader): a rejection of the predecessor is passed
\* on and the reloader does not run
SyncReloadNoCatch(predecessor) ==
  IF predecessor = "fulfilled" THEN "run"
  ELSE IF predecessor = "rejected" THEN "reject" ELSE "wait"

\* this._reloadDone.catch(() => {}).then(reloader), seen from the state of
\* the promise _reloadDone held when the operation was requested: the
\* reloader runs once that promise has settled either way
_syncReload(predecessor) ==
  IF predecessor \in {"fulfilled", "rejected"} THEN "run" ELSE "wait"

\* A reload operation as _syncReload registers it
NewReload(kind, arg) ==
  [kind |-> kind, arg |-> arg, state |-> "waiting", started |-> FALSE,
   failed |-> FALSE, roles |-> <<>>, clients |-> <<>>,
   rNext |-> 1, cNext |-> 1, since |-> 0]

\* The promise a reload operation was chained to: this._reloadDone at the
\* time of the request, Promise.resolve() for the first
Predecessor(i) == IF i = 1 THEN "fulfilled" ELSE reloads[i - 1].state

Settled(i) == reloads[i].state \in {"fulfilled", "rejected"}

Running(i, kind) ==
  /\ reloads[i].state = "running"
  /\ reloads[i].kind = kind

\* The rows of its table a scan of reload() has yet to visit start at
\* rNext (cNext) in table order; the scan is done when none is left
RolesScanned(i) == reloads[i].rNext > Len(RelRoleOrder)

ClientsScanned(i) == reloads[i].cNext > Len(RelClientOrder)

\* taskcluster.fromNow(this._maxLastUsedDelay)
minLastUsed == now - LastUsedDelay

\* The role object reload and reloadRole make of a role of the table;
\* version is the number of the write that made the row read
NewRole(roleId, role) ==
  [roleId |-> roleId, scopes |-> role.scopes, version |-> written[roleId]]

\* The client object reload and reloadClient make of a client of the table,
\* expandedScopes not set yet; version is the number of the write that made
\* the row read and obj tells the object from the others made for this
\* clientId: the number of the reload operation that made it
NewClient(clientId, client, i) ==
  [clientId |-> clientId,
   expires |-> client.expires,
   updateLastUsed |-> client.lastDateUsed < minLastUsed,
   unexpandedScopes |-> client.scopes,
   disabled |-> client.disabled,
   expandedScopes |-> <<>>,
   version |-> written[clientId],
   obj |-> i]

\* What a scan hands to its handler at row q: the entity there, if any
ScannedRole(q) ==
  LET roleId == RelRoleOrder[q]
  IN  IF Role[roleId] = None THEN <<>>
      ELSE <<NewRole(roleId, Role[roleId])>>

ScannedClient(q, i) ==
  LET clientId == RelClientOrder[q]
  IN  IF Client[clientId] = None THEN <<>>
      ELSE <<NewClient(clientId, Client[clientId], i)>>

\* reloadClient without the filter: the loaded client is pushed next to the
\* one already in the list
PatchClientsKeep(clients, clientId, loaded) == clients \o loaded

\* reloadClient: the client is always removed from the list, and added back
\* if one was loaded
PatchClients(clients, clientId, loaded) ==
  SelectSeq(clients, LAMBDA c : c.clientId # clientId) \o loaded

\* reloadRole: the role is always removed from the list, and added back if
\* one was loaded
PatchRoles(roles, roleId, loaded) ==
  SelectSeq(roles, LAMBDA r : r.roleId # roleId) \o loaded

\* Table.load(key, true): the entity, or nothing if there is none
LoadedRole(roleId) ==
  IF Role[roleId] = None THEN <<>> ELSE <<NewRole(roleId, Role[roleId])>>

LoadedClient(clientId, i) ==
  IF Client[clientId] = None THEN <<>>
  ELSE <<NewClient(clientId, Client[clientId], i)>>

\* A handler that pushes to this._roles
ScanRolesShared(shared, local, found) ==
  [shared |-> shared \o found, local |-> local \o found]

\* The handler of Role.scan in reload(): it pushes to the local array
\* roles, this._roles is not touched
ScanRolesHandler(shared, local, found) ==
  [shared |-> shared, local |-> local \o found]

\* The handler of Client.scan in reload(): it pushes to the local array
\* clients
ScanClientsHandler(shared, local, found) ==
  [shared |-> shared, local |-> local \o found]

Publish(built) ==
  /\ _roles' = built.roles
  /\ _clients' = built.clients
  /\ _clientCache' = built.clientCache
  /\ _resolver' = built.resolver

\* this.reload(), from setup() and from the interval timer
RequestReload ==
  /\ Len(reloads) < MaxReloads
  /\ reloads' = Append(reloads, NewReload("reload", <<>>))
  /\ UNCHANGED <<Role, Client, snapshot, writes, written, ldVars, pureVars>>

\* this.reloadClient(clientId), from a client message
RequestReloadClient ==
  /\ Len(reloads) < MaxReloads
  /\ \E c \in RelClientIds :
       reloads' = Append(reloads, NewReload("reloadClient", c))
  /\ UNCHANGED <<Role, Client, snapshot, writes, written, ldVars, pureVars>>

\* this.reloadRole(roleId), from a role message
RequestReloadRole ==
  /\ Len(reloads) < MaxReloads
  /\ \E r \in RelRoleIds :
       reloads' = Append(reloads, NewReload("reloadRole", r))
  /\ UNCHANGED <<Role, Client, snapshot, writes, written, ldVars, pureVars>>

\* The promise an operation was chained to settles: the reloader starts and
\* issues its load or its scans (or, were the rejection passed on, the
\* operation rejects without running)
StartReloader ==
  /\ \E i \in 1..Len(reloads) :
       /\ reloads[i].state = "waiting"
       /\ LET next == _syncReload(Predecessor(i))
          IN  /\ next # "wait"
              /\ reloads' =
                   [reloads EXCEPT ![i] =
                      IF next = "run"
                      THEN [@ EXCEPT !.state = "running", !.started = TRUE,
                                     !.since = writes]
                      ELSE [@ EXCEPT !.state = "rejected"]]
  /\ UNCHANGED <<Role, Client, snapshot, writes, written, ldVars, pureVars>>

\* reloadClient: Client.load answers; the client is removed, added back if
\* it was loaded, and the resolver rebuilt
LoadClientDone ==
  /\ \E i \in 1..Len(reloads) :
       /\ Running(i, "reloadClient")
       /\ Publish(_rebuildResolver(_roles,
             PatchClients(_clients, reloads[i].arg,
                          LoadedClient(reloads[i].arg, i))))
       /\ reloads' = [reloads EXCEPT ![i].state = "fulfilled"]
  /\ UNCHANGED <<Role, Client, writes, written, ldVars, pureVars>>

\* reloadRole: Role.load answers; the role is removed, added back if it was
\* loaded, and the resolver rebuilt
LoadRoleDone ==
  /\ \E i \in 1..Len(reloads) :
       /\ Running(i, "reloadRole")
       /\ Publish(_rebuildResolver(
             PatchRoles(_roles, reloads[i].arg, LoadedRole(reloads[i].arg)),
             _clients))
       /\ reloads' = [reloads EXCEPT ![i].state = "fulfilled"]
  /\ UNCHANGED <<Role, Client, writes, written, ldVars, pureVars>>

\* reloadClient, reloadRole: the load rejects, and the reloader with it
LoadFail ==
  /\ \E i \in 1..Len(reloads) :
       /\ Running(i, "reloadClient") \/ Running(i, "reloadRole")
       /\ reloads' = [reloads EXCEPT ![i].state = "rejected",
                                     ![i].failed = TRUE]
  /\ UNCHANGED <<Role, Client, snapshot, writes, written, ldVars, pureVars>>

\* reload: Role.scan visits its next row and hands the role there to the
\* handler; after the last row the scan completes and, if Client.scan has
\* completed too, Promise.all fulfils, _roles and _clients are set and the
\* resolver rebuilt in the same turn
ScanRoles ==
  /\ \E i \in 1..Len(reloads) :
       /\ Running(i, "reload")
       /\ ~RolesScanned(i)
       /\ LET pushed == ScanRolesHandler(_roles, reloads[i].roles,
                                         ScannedRole(reloads[i].rNext))
              last == reloads[i].rNext = Len(RelRoleOrder)
          IN  IF last /\ ClientsScanned(i)
              THEN /\ Publish(_rebuildResolver(pushed.local, reloads[i].clients))
                   /\ reloads' = [reloads EXCEPT ![i].roles = pushed.local,
                                                 ![i].rNext = @ + 1,
                                                 ![i].state = "fulfilled"]
              ELSE /\ _roles' = pushed.shared
                   /\ UNCHANGED <<_clients, _clientCache, _resolver>>
                   /\ reloads' = [reloads EXCEPT ![i].roles = pushed.local,
                                                 ![i].rNext = @ + 1]
  /\ UNCHANGED <<Role, Client, writes, written, ldVars, pureVars>>

\* reload: Client.scan visits its next row and hands the client there to
\* the handler; after the last row the scan completes and, if Role.scan
\* has completed too, Promise.all fulfils, _roles and _clients are set and
\* the resolver rebuilt in the same turn
ScanClients ==
  /\ \E i \in 1..Len(reloads) :
       /\ Running(i, "reload")
       /\ ~ClientsScanned(i)
       /\ LET pushed == ScanClientsHandler(_clients, reloads[i].clients,
                                           ScannedClient(reloads[i].cNext, i))
              last == reloads[i].cNext = Len(RelClientOrder)
          IN  IF last /\ RolesScanned(i)
              THEN /\ Publish(_rebuildResolver(reloads[i].roles, pushed.local))
                   /\ reloads' = [reloads EXCEPT ![i].clients = pushed.local,
                                                 ![i].cNext = @ + 1,
                                                 ![i].state = "fulfilled"]
              ELSE /\ _clients' = pushed.shared
                   /\ UNCHANGED <<_roles, _clientCache, _resolver>>
                   /\ reloads' = [reloads EXCEPT ![i].clients = pushed.local,
                                                 ![i].cNext = @ + 1]
  /\ UNCHANGED <<Role, Client, writes, written, ldVars, pureVars>>

\* reload: a scan rejects, before its first row or after some, Promise.all
\* rejects and the reloader with it
ScanFail ==
  /\ \E i \in 1..Len(reloads) :
       /\ Running(i, "reload")
       /\ reloads' = [reloads EXCEPT ![i].state = "rejected",
                                     ![i].failed = TRUE]
  /\ UNCHANGED <<Role, Client, snapshot, writes, written, ldVars, pureVars>>

\* A role of the table is created, updated or deleted
WriteRole ==
  /\ writes < MaxWrites
  /\ \E r \in RelRoleIds : \E row \in RoleRows :
       /\ row # Role[r]
       /\ Role' = [Role EXCEPT ![r] = row]
       /\ written' = [written EXCEPT ![r] = writes + 1]
  /\ writes' = writes + 1
  /\ UNCHANGED <<Client, snapshot, reloads, ldVars, pureVars>>

\* The row of a client after the API wrote it: deleted; created, with
\* lastDateUsed the time of the creation; or updated, its scopes replaced
WrittenClient(old, row) ==
  IF row = None THEN None
  ELSE IF old = None THEN CreatedClient(row.scopes, now)
  ELSE [old EXCEPT !.scopes = row.scopes]

\* A client of the table is created, updated or deleted
WriteClient ==
  /\ writes < MaxWrites
  /\ \E c \in RelClientIds : \E row \in ClientRows :
       /\ WrittenClient(Client[c], row) # Client[c]
       /\ Client' = [Client EXCEPT ![c] = WrittenClient(Client[c], row)]
       /\ written' = [written EXCEPT ![c] = writes + 1]
  /\ writes' = writes + 1
  /\ UNCHANGED <<Role, snapshot, reloads, ldVars, pureVars>>

\* new ScopeResolver(), over tables with any content
InitReload ==
  /\ TrieIdle
  /\ FixIdle
  /\ ResIdle
  /\ MrgIdle
  /\ CallIdle
  /\ Role \in [RelRoleIds -> RoleRows]
  /\ Client \in [RelClientIds -> ClientRows]
  /\ _roles = <<>>
  /\ _clients = <<>>
  /\ _clientCache = [c \in RelClientIds |-> None]
  /\ _resolver = None
  /\ reloads = <<>>
  /\ writes = 0
  /\ written = [e \in RelRoleIds \cup RelClientIds |-> 0]
  /\ LdIdle

\* The steps of the reloaders: promise reactions and answers of the tables
ReloaderStep ==
  \/ StartReloader
  \/ LoadClientDone
  \/ LoadRoleDone
  \/ LoadFail
  \/ ScanRoles
  \/ ScanClients
  \/ ScanFail

NextReload ==
  \/ RequestReload
  \/ RequestReloadClient
  \/ RequestReloadRole
  \/ ReloaderStep
  \/ WriteRole
  \/ WriteClient

SpecReload == InitReload /\ [][NextReload]_vars

\* A read of a table that can fail is outstanding: the reloader awaits it
ReadFails == LoadFail \/ ScanFail

\* Every promise reaction that is ready runs, and no read of a table stays
\* outstanding for ever: it is answered or it fails
SpecReloadFair ==
  SpecReload /\ WF_vars(StartReloader) /\ WF_vars(ReadFails)

\* ------------------------------------------------------------------------
\* loadClient and the last-used updates it starts, next to the reloads
\* ------------------------------------------------------------------------

\* loadClient without the precedence of its checks: expiry is tested before
\* the disabled flag
loadClientExpiryFirst(cache, clientId, time) ==
  IF cache[clientId] = None
  THEN [outcome |-> "NotFound", client |-> None, fire |-> FALSE]
  ELSE IF cache[clientId].expires < time
  THEN [outcome |-> "Expired", client |-> None, fire |-> FALSE]
  ELSE IF cache[clientId].disabled
  THEN [outcome |-> "Disabled", client |-> None, fire |-> FALSE]
  ELSE [outcome |-> "ok",
        client |-> [cache[clientId] EXCEPT !.updateLastUsed = FALSE],
        fire |-> cache[clientId].updateLastUsed]

\* loadClient that leaves updateLastUsed set
loadClientKeepFlag(cache, clientId, time) ==
  IF cache[clientId] = None
  THEN [outcome |-> "NotFound", client |-> None, fire |-> FALSE]
  ELSE IF cache[clientId].disabled
  THEN [outcome |-> "Disabled", client |-> None, fire |-> FALSE]
  ELSE IF cache[clientId].expires < time
  THEN [outcome |-> "Expired", client |-> None, fire |-> FALSE]
  ELSE [outcome |-> "ok",
        client |-> cache[clientId],
        fire |-> cache[clientId].updateLastUsed]

\* loadClient(clientId) at this time: the error it throws or "ok", the
\* client object it returns as it is then, and whether it called
\* _updateLastUsed
loadClient(cache, clientId, time) ==
  IF cache[clientId] = None
  THEN [outcome |-> "NotFound", client |-> None, fire |-> FALSE]
  ELSE IF cache[clientId].disabled
  THEN [outcome |-> "Disabled", client |-> None, fire |-> FALSE]
  ELSE IF cache[clientId].expires < time
  THEN [outcome |-> "Expired", client |-> None, fire |-> FALSE]
  ELSE [outcome |-> "ok",
        client |-> [cache[clientId] EXCEPT !.updateLastUsed = FALSE],
        fire |-> cache[clientId].updateLastUsed]

\* Calls of loadClient made so far
Calls == IF held = None THEN 0 ELSE held.call

\* A call of _updateLastUsed(clientId), made for the client object obj, at
\* its first await
NewUpdate(clientId, obj) ==
  [clientId |-> clientId, obj |-> obj, state |-> "load", wrote |-> FALSE,
   at |-> 0]

\* The object of the list that the cache holds under clientId is the one
\* loadClient wrote to
WriteThrough(clients, cached, client) ==
  [q \in 1..Len(clients) |-> IF clients[q] = cached THEN client ELSE clients[q]]

\* What loadClient leaves behind: the call and its result, the flag cleared
\* in the cached object, the update started
LoadClientReturns(clientId, res) ==
  /\ held' = [call |-> Calls + 1, clientId |-> clientId, at |-> now,
              outcome |-> res.outcome, client |-> res.client]
  /\ IF res.outcome = "ok"
     THEN /\ _clientCache' = [_clientCache EXCEPT ![clientId] = res.client]
          /\ _clients' = WriteThrough(_clients, _clientCache[clientId],
                                      res.client)
     ELSE UNCHANGED <<_clients, _clientCache>>
  /\ updates' = IF res.fire
                THEN Append(updates, NewUpdate(clientId, res.client.obj))
                ELSE updates

\* A request is authenticated: loadClient(clientId)
LoadClient ==
  /\ Calls < MaxCalls
  /\ \E c \in RelClientIds :
       LoadClientReturns(c, loadClient(_clientCache, c, now))
  /\ UNCHANGED <<Role, Client, _roles, _resolver, reloads, writes, written,
                 now, errors, pureVars>>

\* The modifier that sets lastDateUsed whatever it was
lastUsedModifierAlways(client, time) ==
  [client |-> [client EXCEPT !.lastDateUsed = time], wrote |-> TRUE]

\* The modifier _updateLastUsed gives to client.modify: lastDateUsed is set
\* to the time of the call if it is older than minLastUsed
lastUsedModifier(client, time) ==
  IF client.lastDateUsed < time - LastUsedDelay
  THEN [client |-> [client EXCEPT !.lastDateUsed = time], wrote |-> TRUE]
  ELSE [client |-> client, wrote |-> FALSE]

\* _updateLastUsed rejects and loadClient's catch emits the error
Rejected(k) ==
  /\ updates' = [updates EXCEPT ![k].state = "failed"]
  /\ errors' = errors + 1
  /\ UNCHANGED Client

\* client.modify(modifier): the modifier is applied to the row as it is
\* when the write is made
Modified(k, modified) ==
  /\ Client' = [Client EXCEPT ![updates[k].clientId] = modified.client]
  /\ updates' = [updates EXCEPT ![k].state = "done",
                                ![k].wrote = modified.wrote,
                                ![k].at = now]
  /\ UNCHANGED errors

\* _updateLastUsed: Client.load answers; it throws if there is no such client
UpdateLoad ==
  /\ \E k \in 1..Len(updates) :
       /\ updates[k].state = "load"
       /\ IF Client[updates[k].clientId] = None
          THEN Rejected(k)
          ELSE /\ updates' = [updates EXCEPT ![k].state = "modify"]
               /\ UNCHANGED <<Client, errors>>
  /\ UNCHANGED <<Role, snapshot, reloads, writes, written, now, held,
                 pureVars>>

\* _updateLastUsed: client.modify completes, or throws if the client is gone
UpdateModify ==
  /\ \E k \in 1..Len(updates) :
       /\ updates[k].state = "modify"
       /\ IF Client[updates[k].clientId] = None
          THEN Rejected(k)
          ELSE Modified(k, lastUsedModifier(Client[updates[k].clientId], now))
  /\ UNCHANGED <<Role, snapshot, reloads, writes, written, now, held,
                 pureVars>>

\* _updateLastUsed: the table fails the load or the write
UpdateFail ==
  /\ \E k \in 1..Len(updates) :
       /\ updates[k].state \in {"load", "modify"}
       /\ Rejected(k)
  /\ UNCHANGED <<Role, snapshot, reloads, writes, written, now, held,
                 pureVars>>

\* Time passes
Tick ==
  /\ now < MaxNow
  /\ now' = now + 1
  /\ UNCHANGED <<Role, Client, snapshot, reloads, writes, written, held,
                 updates, errors, pureVars>>

RECURSIVE ScanRolesFrom(_)

\* The roles Role.scan hands over from row q on
ScanRolesFrom(q) ==
  IF q > Len(RelRoleOrder) THEN <<>>
  ELSE ScannedRole(q) \o ScanRolesFrom(q + 1)

RECURSIVE ScanClientsFrom(_)

\* The clients Client.scan hands over from row q on, to the first reload
ScanClientsFrom(q) ==
  IF q > Len(RelClientOrder) THEN <<>>
  ELSE ScannedClient(q, 1) \o ScanClientsFrom(q + 1)

\* The reload() of setup(), completed
SetupReload(roles, clients) ==
  [NewReload("reload", <<>>) EXCEPT !.state = "fulfilled",
                                    !.started = TRUE,
                                    !.roles = roles,
                                    !.clients = clients,
                                    !.rNext = Len(RelRoleOrder) + 1,
                                    !.cNext = Len(RelClientOrder) + 1]

\* The fields of the ScopeResolver after the reload() of setup()
SetupDone(roles, clients, built) ==
  /\ _roles = built.roles
  /\ _clients = built.clients
  /\ _clientCache = built.clientCache
  /\ _resolver = built.resolver
  /\ reloads = <<SetupReload(roles, clients)>>

\* setup() returned: the first reload() has completed, over tables with one
\* client at most, at a time when a client never used is due for a
\* last-used update; loadClient is called from then on
InitClient ==
  /\ TrieIdle
  /\ FixIdle
  /\ ResIdle
  /\ MrgIdle
  /\ CallIdle
  /\ now = LastUsedDelay + 1
  /\ held = None
  /\ updates = <<>>
  /\ errors = 0
  /\ Role \in [RelRoleIds -> RoleRows]
  /\ Client \in {[c \in RelClientIds |->
                    IF c = RelClientOrder[Len(RelClientOrder)] THEN row
                    ELSE None] : row \in LdClientRows}
  /\ writes = 0
  /\ written = [e \in RelRoleIds \cup RelClientIds |-> 0]
  /\ SetupDone(ScanRolesFrom(1), ScanClientsFrom(1),
               _rebuildResolver(ScanRolesFrom(1), ScanClientsFrom(1)))

NextClient ==
  \/ NextReload
  \/ LoadClient
  \/ UpdateLoad
  \/ UpdateModify
  \/ UpdateFail
  \/ Tick

SpecClient == InitClient /\ [][NextClient]_vars

\* C7: at most one reloader is in progress at any time, and a reloader has
\* started (issued its first read) only if every operation requested before
\* it has completed or failed
C7_ReloadsSerialized ==
  /\ Cardinality({i \in 1..Len(reloads) : reloads[i].state = "running"}) <= 1
  /\ \A i \in 1..Len(reloads) :
       reloads[i].started => \A j \in 1..(i - 1) : Settled(j)

\* The second operation was requested while the first was running, and
\* waits for it
C7_Witness ==
  /\ Len(reloads) >= 2
  /\ reloads[1].state = "running"
  /\ reloads[2].state = "waiting"

\* C8: a reload promise rejects only when its own reloader failed, and
\* every requested operation, whatever failed before or after it, gets its
\* reloader run to completion or failure
C8_FailureKeepsQueue ==
  /\ [](\A i \in 1..Len(reloads) :
          reloads[i].state = "rejected" => reloads[i].failed)
  /\ \A i \in 1..MaxReloads :
       (Len(reloads) >= i) ~>
          (Len(reloads) >= i /\ Settled(i) /\ reloads[i].started)

\* The first operation failed and the second ran and completed
C8_Witness ==
  /\ Len(reloads) >= 2
  /\ reloads[1].state = "rejected" /\ reloads[1].failed
  /\ reloads[2].state = "fulfilled" /\ reloads[2].started

CacheKeys == {c \in RelClientIds : _clientCache[c] # None}

ClientEntries(clients, id) ==
  {q \in 1..Len(clients) : clients[q].clientId = id}

RoleEntries(roles, id) == {q \in 1..Len(roles) : roles[q].roleId = id}

\* The reloader of operation i, of this kind, completes in this step
Completes(i, kind) ==
  /\ i <= Len(reloads)
  /\ Running(i, kind)
  /\ reloads'[i].state = "fulfilled"

\* The client object holds the values of the row of the table
HoldsClient(client, row) ==
  /\ Range(client.unexpandedScopes) = Range(row.scopes)
  /\ client.disabled = row.disabled
  /\ client.expires = row.expires
  /\ client.updateLastUsed = (row.lastDateUsed < minLastUsed)

\* After reloadClient(id): no entry for id if the load returned nothing,
\* else exactly one, with the loaded values, and the cache holds it
ReflectsClient(id) ==
  IF Client[id] = None
  THEN /\ ClientEntries(_clients', id) = {}
       /\ _clientCache'[id] = None
  ELSE \E q \in 1..Len(_clients') :
         /\ ClientEntries(_clients', id) = {q}
         /\ _clientCache'[id] = _clients'[q]
         /\ HoldsClient(_clients'[q], Client[id])

\* After reloadRole(id): no role id if the load returned nothing, else
\* exactly one, with the loaded scopes; the resolver is the one of the
\* patched list and every cached client's expandedScopes is what it returns
\* for the unexpandedScopes the client had when the rebuild resolved them
ReflectsRole(id) ==
  /\ IF Role[id] = None
     THEN RoleEntries(_roles', id) = {}
     ELSE \E q \in 1..Len(_roles') :
            /\ RoleEntries(_roles', id) = {q}
            /\ _roles'[q].scopes = Role[id].scopes
  /\ _resolver' = ScopeResolverBuild(_roles')
  /\ \A c \in RelClientIds :
       _clientCache'[c] # None =>
         /\ _clientCache[c] # None
         /\ _clientCache'[c].expandedScopes =
              Resolver(_resolver'.dfa, _clientCache[c].unexpandedScopes).result

\* C15: when reloadClient(id) completes, _clients and _clientCache hold no
\* entry for id if the load returned nothing and exactly one entry with the
\* loaded values otherwise; when reloadRole(id) completes, _roles holds no
\* role id if the load returned nothing and exactly one otherwise, and the
\* resolver and every cached client's expandedScopes are those of the
\* patched role list.
C15_ReloadReflectsSource ==
  [][\A i \in 1..MaxReloads :
       /\ Completes(i, "reloadClient") => ReflectsClient(reloads[i].arg)
       /\ Completes(i, "reloadRole") => ReflectsRole(reloads[i].arg)]_vars

\* reload() put a client in the cache, its row was updated, and
\* reloadClient(id) completed and replaced the entry by the updated one
C15_Witness ==
  /\ Len(reloads) = 2
  /\ reloads[1].kind = "reload" /\ reloads[1].state = "fulfilled"
  /\ reloads[2].kind = "reloadClient" /\ reloads[2].state = "fulfilled"
  /\ reloads[1].clients # <<>>
  /\ written[reloads[2].arg] > reloads[1].since
  /\ _clientCache[reloads[2].arg] # None
  /\ _clientCache[reloads[2].arg].version = written[reloads[2].arg]

\* C17: with the number of the write that made a row as the version of the
\* entity, the version of a client held in _clientCache and of a role held
\* in _roles never decreases from one state of the cache to the next,
\* whatever the order of reloads, events and writes.
C17_CommittedMonotone ==
  [][/\ \A c \in RelClientIds :
          _clientCache[c] # None /\ _clientCache'[c] # None =>
            _clientCache'[c].version >= _clientCache[c].version
     /\ \A q \in 1..Len(_roles) : \A p \in 1..Len(_roles') :
          _roles'[p].roleId = _roles[q].roleId =>
            _roles'[p].version >= _roles[q].version]_vars

\* A per-entity reload started before a client was written, and a bulk
\* reload that completed after it installed the written client
C17_Witness ==
  /\ Len(reloads) = 2
  /\ reloads[1].kind = "reloadClient" /\ reloads[1].state = "fulfilled"
  /\ reloads[2].kind = "reload" /\ reloads[2].state = "fulfilled"
  /\ reloads[1].since < written[reloads[1].arg]
  /\ _clientCache[reloads[1].arg] # None
  /\ _clientCache[reloads[1].arg].version = written[reloads[1].arg]

\* A reloader that completed reread the entity id after the last write to
\* it: a reload() or the per-entity reload of id, started after that write
RereadBy(i, id, kind) ==
  /\ reloads[i].state = "fulfilled"
  /\ reloads[i].since >= written[id]
  /\ \/ reloads[i].kind = "reload"
     \/ reloads[i].kind = kind /\ reloads[i].arg = id

\* _roles holds the role id as the table does
RoleInSync(id) ==
  IF Role[id] = None THEN RoleEntries(_roles, id) = {}
  ELSE \E q \in 1..Len(_roles) :
         /\ RoleEntries(_roles, id) = {q}
         /\ _roles[q].scopes = Role[id].scopes

\* _clients holds the client id as the table does
ClientInSync(id) ==
  IF Client[id] = None THEN ClientEntries(_clients, id) = {}
  ELSE \E q \in 1..Len(_clients) :
         /\ ClientEntries(_clients, id) = {q}
         /\ Range(_clients[q].unexpandedScopes) = Range(Client[id].scopes)
         /\ _clients[q].disabled = Client[id].disabled
         /\ _clients[q].expires = Client[id].expires

\* Every operation requested has completed or failed
AllSettled == \A i \in 1..Len(reloads) : Settled(i)

\* C16: once the tables have stopped changing, every requested operation
\* completes or fails, and from then on every entity that a successful
\* reload reread after its last change (the periodic reload(), or the
\* reloadClient / reloadRole of an event for it, in any order and any number
\* of times) is in the cached list with its current values, or absent from
\* it if the table has none.
C16_EventuallyConsistent ==
  <>[](/\ AllSettled
       /\ \A id \in RelRoleIds :
            (\E i \in 1..Len(reloads) : RereadBy(i, id, "reloadRole"))
              => RoleInSync(id)
       /\ \A id \in RelClientIds :
            (\E i \in 1..Len(reloads) : RereadBy(i, id, "reloadClient"))
              => ClientInSync(id))

\* A bulk reload filled the cache, a client was written after it started,
\* the reloadClient of the event completed, and the cache holds the client
\* as written
C16_Witness ==
  /\ AllSettled
  /\ Len(reloads) = 2
  /\ reloads[1].kind = "reload" /\ reloads[1].state = "fulfilled"
  /\ reloads[2].kind = "reloadClient"
  /\ written[reloads[2].arg] > reloads[1].since
  /\ RereadBy(2, reloads[2].arg, "reloadClient")
  /\ Client[reloads[2].arg] # None
  /\ ClientInSync(reloads[2].arg)

\* C11: loadClient(clientId) fails with NotFound when the cache has no such
\* client, otherwise with Disabled when the cached client is disabled,
\* otherwise with Expired when its expires is before the current time, and
\* returns the cached object only when none applies; a failing call leaves
\* the cached clients (their updateLastUsed flags) as they were and starts
\* no last-used update.
C11_LoadClientErrors ==
  [][held' # held =>
       LET before == _clientCache[held'.clientId]
           out == held'.outcome
       IN  /\ before = None => out = "NotFound"
           /\ before # None /\ before.disabled => out = "Disabled"
           /\ before # None /\ ~before.disabled /\ before.expires < now
                => out = "Expired"
           /\ out = "ok" <=> /\ before # None
                             /\ ~before.disabled
                             /\ ~(before.expires < now)
           /\ out = "ok" => held'.client = _clientCache'[held'.clientId]
           /\ out # "ok" => /\ _clientCache' = _clientCache
                            /\ _clients' = _clients
                            /\ updates' = updates]_vars

\* loadClient was called for a client both disabled and expired, and failed
\* with Disabled
C11_Witness ==
  /\ held # None
  /\ held.outcome = "Disabled"
  /\ _clientCache[held.clientId] # None
  /\ _clientCache[held.clientId].disabled
  /\ _clientCache[held.clientId].expires < held.at

\* C13: a successful loadClient for a client whose updateLastUsed is set
\* clears the flag and starts one last-used update, any other call starts
\* none; no two updates are ever started for the same cached client object
\* (a second one needs a reload to make a new object with the flag set); a
\* failing update emits one error and leaves the result of loadClient alone.
C13_LastUsedGating ==
  [][/\ held' # held =>
          IF held'.outcome = "ok" /\ _clientCache[held'.clientId].updateLastUsed
          THEN /\ ~_clientCache'[held'.clientId].updateLastUsed
               /\ updates' =
                    Append(updates,
                           NewUpdate(held'.clientId,
                                     _clientCache[held'.clientId].obj))
          ELSE updates' = updates
     /\ \A k, l \in 1..Len(updates') :
          updates'[k].clientId = updates'[l].clientId
            /\ updates'[k].obj = updates'[l].obj => k = l
     /\ \A k \in 1..Len(updates) :
          updates[k].state # "failed" /\ updates'[k].state = "failed" =>
            /\ errors' = errors + 1
            /\ held' = held]_vars

\* An update was started for a client, a reload made a new object for the
\* client with the flag set, and the next loadClient started a second update
C13_Witness ==
  /\ held # None
  /\ held.call = 2
  /\ held.outcome = "ok"
  /\ Len(updates) = 2
  /\ updates[1].clientId = updates[2].clientId
  /\ updates[1].obj # updates[2].obj
  /\ updates[2].obj = held.client.obj

\* C14: two last-used updates that wrote lastDateUsed of the same client
\* are more than maxLastUsedDelay apart, whatever the order of loadClient
\* calls, reloads and updates in flight or failed.
C14_OnceAWindow ==
  \A k, l \in 1..Len(updates) :
    /\ k # l
    /\ updates[k].clientId = updates[l].clientId
    /\ updates[k].wrote /\ updates[l].wrote
    /\ updates[k].at <= updates[l].at
    => updates[l].at - updates[k].at > LastUsedDelay

\* Two updates were started for a client, the second after a reload reread
\* the lastDateUsed that the first had not written yet; the first wrote it
\* and the second, within the window, left it
C14_Witness ==
  /\ Len(updates) = 2
  /\ updates[1].clientId = updates[2].clientId
  /\ updates[1].state = "done" /\ updates[2].state = "done"
  /\ updates[1].wrote
  /\ ~updates[2].wrote
  /\ updates[2].at - updates[1].at <= LastUsedDelay

\* C19: the client object loadClient returned keeps, for as long as the
\* ScopeResolver holds it, the expandedScopes and the flags it had when it
\* was returned: no later reload, reloadClient or reloadRole writes to it.
C19_PublishedImmutable ==
  held # None /\ held.outcome = "ok" =>
    \A q \in 1..Len(_clients) :
      _clients[q].clientId = held.clientId /\ _clients[q].obj = held.client.obj
        => /\ _clients[q].expandedScopes = held.client.expandedScopes
           /\ _clients[q].disabled = held.client.disabled
           /\ _clients[q].expires = held.client.expires
           /\ _clients[q].updateLastUsed = held.client.updateLastUsed

\* role is the client-id role of the client clientId, or a prefix role that
\* matches it
IsClientIdRole(roleId, clientId) ==
  \/ roleId = ClientIdRole(clientId)
  \/ EndsWithStar(roleId) /\ StartsWith(ClientIdRole(clientId), DropLast(roleId))

\* C12: in every published snapshot each scope of the role
\* 'client-id:<clientId>' (or of a prefix role matching it) is satisfied by
\* a member of the expandedScopes of the cached client clientId.
C12_ClientHoldsOwnRole ==
  \A c \in CacheKeys : \A q \in 1..Len(_roles) :
     IsClientIdRole(_roles[q].roleId, c) =>
       Covers(Range(_clientCache[c].expandedScopes), Range(_roles[q].scopes))

\* C10: no step of a reloader that then is still running or has failed
\* changes _roles, _clients, _clientCache or _resolver: an operation that
\* fails leaves all four as they were when it started
C10_FailedReloadKeepsSnapshot ==
  [][(\E i \in 1..Len(reloads) :
        /\ reloads[i].state = "running"
        /\ reloads'[i].state \in {"running", "rejected"})
     => UNCHANGED snapshot]_vars

\* A bulk reload failed after Role.scan delivered a role and before it
\* visited its last row, over a snapshot an earlier operation had filled
C10_Witness ==
  \E i \in 1..Len(reloads) :
    /\ reloads[i].kind = "reload"
    /\ reloads[i].state = "rejected"
    /\ reloads[i].roles # <<>>
    /\ ~RolesScanned(i)
    /\ reloads[i].roles # _roles
    /\ _clients # <<>>

\* ------------------------------------------------------------------------
\* Specification of scopeCompare: it is called on the pairs of three scopes
\* ------------------------------------------------------------------------

\* Longest scope compared
MaxCmpLen == 2

\* Characters of the scopes compared: one below '*', '*' itself, one above
CmpAlphabet == {LPAREN, STAR, CH_a}

CmpStrings == Strings(CmpAlphabet, MaxCmpLen)

InitCompare ==
  /\ TrieIdle
  /\ FixIdle
  /\ ResIdle
  /\ RelIdle
  /\ MrgIdle
  /\ args \in [a : CmpStrings, b : CmpStrings, c : CmpStrings]
  /\ ret = None

\* scopeCompare(a, b), (b, a), (b, c) and (a, c)
Compare ==
  /\ ret = None
  /\ ret' = [ab |-> scopeCompare(args.a, args.b),
             ba |-> scopeCompare(args.b, args.a),
             bc |-> scopeCompare(args.b, args.c),
             ac |-> scopeCompare(args.a, args.c)]
  /\ UNCHANGED <<args, trieVars, fixVars, resVars, mrgVars, relVars>>

NextCompare == Compare

SpecCompare == InitCompare /\ [][NextCompare]_vars

\* C21: scopeCompare is a strict total order: of two distinct scopes exactly
\* one sorts before the other, and a before b, b before c imply a before c.
C21_StrictTotalOrder ==
  ret # None =>
    /\ (args.a # args.b => ((ret.ab < 0) # (ret.ba < 0)))
    /\ (ret.ab < 0 /\ ret.bc < 0 => ret.ac < 0)

\* C22: a prefix scope w = p* sorts before every other scope s that starts
\* with p: scopeCompare(w, s) < 0 and scopeCompare(s, w) > 0.
C22_WildcardFirst ==
  (/\ ret # None
   /\ EndsWithStar(args.a)
   /\ args.b # args.a
   /\ StartsWith(args.b, DropLast(args.a)))
  => ret.ab < 0 /\ ret.ba > 0

\* C23: for sorted and normalized lists A and B, mergeScopeSets(A, B) and
\* mergeScopeSets(B, A) hold the same set of scopes.
C23_MergeCommutes ==
  mMerged # None /\ ret # None => Range(mMerged.scopes) = Range(ret.scopes)

\* ------------------------------------------------------------------------
\* Specification of normalization: a list is sorted and merged with the
\* empty list, and the result normalized again
\* ------------------------------------------------------------------------

\* Longest list normalized
MaxNormLen == 3

\* The lists normalized: in any order, a scope may be repeated
NormInputs == UNION {[1..k -> MergeScopes] : k \in 0..MaxNormLen}

\* Normalizing a list: sort by scopeCompare, then merge with the empty list
normalize(scopes) ==
  mergeScopeSets(sortScopesForMerge(scopes), sortScopesForMerge(<<>>))

InitNormalize ==
  /\ TrieIdle
  /\ FixIdle
  /\ ResIdle
  /\ RelIdle
  /\ MrgIdle
  /\ args \in NormInputs
  /\ ret = None

\* normalize(S)
Normalize ==
  /\ ret = None
  /\ ret' = [once |-> normalize(args), again |-> FALSE, twice |-> <<>>]
  /\ UNCHANGED <<args, trieVars, fixVars, resVars, mrgVars, relVars>>

\* normalize(normalize(S))
NormalizeAgain ==
  /\ ret # None
  /\ ~ret.again
  /\ ret' = [ret EXCEPT !.again = TRUE, !.twice = normalize(ret.once)]
  /\ UNCHANGED <<args, trieVars, fixVars, resVars, mrgVars, relVars>>

NextNormalize == Normalize \/ NormalizeAgain

SpecNormalize == InitNormalize /\ [][NextNormalize]_vars

\* C24: when a satisfies b, normalizing the two scopes, given in either
\* order, returns exactly [a].
C24_Absorption ==
  ret # None /\ Len(args) = 2 =>
    /\ (Satisfies(args[1], args[2]) => ret.once = <<args[1]>>)
    /\ (Satisfies(args[2], args[1]) => ret.once = <<args[2]>>)

\* C25: normalize(normalize(S)) = normalize(S) for every list S.
C25_NormalizeIdempotent ==
  ret # None /\ ret.again => ret.twice = ret.once

\* ------------------------------------------------------------------------
\* The resolver's work-list loop, one iteration at a time
\* ------------------------------------------------------------------------

\* Longest work list the loop may extend
MaxWork == 16

\* let scopes = inputs; let seen = new Set(); let i = 0; runs lists the
\* scopes handed to executeTrie so far
LoopEntry(inputs) ==
  [scopes |-> inputs, i |-> 0, seen |-> {}, runs |-> <<>>, done |-> FALSE,
   result |-> <<>>]

\* The iteration without seen.add(scope)
LoopIterationForgets(trie, st) ==
  LET scope == st.scopes[st.i + 1]
  IN  IF ~assumePrefixTest(scope) \/ scope \in st.seen
      THEN [st EXCEPT !.i = st.i + 1]
      ELSE [st EXCEPT !.i = st.i + 1,
                      !.runs = Append(st.runs, scope),
                      !.scopes = st.scopes
                        \o FilterTruthy(Flatten(executeTrie(trie, scope)))]

\* One iteration of while (i < scopes.length)
LoopIteration(trie, st) ==
  LET scope == st.scopes[st.i + 1]
  IN  IF ~assumePrefixTest(scope) \/ scope \in st.seen
      THEN [st EXCEPT !.i = st.i + 1]
      ELSE [st EXCEPT !.i = st.i + 1,
                      !.seen = st.seen \cup {scope},
                      !.runs = Append(st.runs, scope),
                      !.scopes = st.scopes
                        \o FilterTruthy(Flatten(executeTrie(trie, scope)))]

\* The closure of buildResolver(roles), holding the trie, called with inputs
LoopCall(roles, inputs) ==
  [roles |-> roles, dfa |-> ScopeResolverBuild(roles).dfa, inputs |-> inputs]

\* A role set of a ScopeResolver and a list given to its resolver, at the
\* entry of the closure
InitLoop ==
  /\ TrieIdle
  /\ FixIdle
  /\ ResIdle
  /\ RelIdle
  /\ MrgIdle
  /\ \E l \in ResIdLists :
       \E sc \in [1..Len(l) -> ResRoleScopeLists] :
         \E S \in ResInputs :
           args = LoopCall([i \in 1..Len(l) |->
                              [roleId |-> l[i], scopes |-> sc[i]]], S)
  /\ ret = LoopEntry(args.inputs)

\* The body of the while loop
LoopStep ==
  /\ ~ret.done
  /\ ret.i < Len(ret.scopes)
  /\ Len(ret.scopes) <= MaxWork
  /\ ret' = LoopIteration(args.dfa, ret)
  /\ UNCHANGED <<args, trieVars, fixVars, resVars, mrgVars, relVars>>

\* The loop condition fails: scopes.sort(scopeCompare); return
\* normalizeScopeSet(scopes)
LoopExit ==
  /\ ~ret.done
  /\ ret.i >= Len(ret.scopes)
  /\ ret' = [ret EXCEPT !.done = TRUE,
                        !.result = normalizeScopeSet(ArraySort(ret.scopes, FALSE))]
  /\ UNCHANGED <<args, trieVars, fixVars, resVars, mrgVars, relVars>>

NextLoop == LoopStep \/ LoopExit

SpecLoop == InitLoop /\ [][NextLoop]_vars

\* The thread running the closure keeps running it
SpecLoopFair == SpecLoop /\ WF_vars(LoopStep)

\* No scope is handed to executeTrie twice
RunsOnce ==
  \A j, k \in 1..Len(ret.runs) : j # k => ret.runs[j] # ret.runs[k]

\* C26: resolve terminates for every input list and every role set, cyclic
\* assume: edges and wildcard inputs included: the loop condition comes to
\* fail, and on the way each distinct expandable scope is run through the
\* trie at most once
C26_ResolveTerminates == <>(ret.i >= Len(ret.scopes)) /\ [](RunsOnce)

\* resolve(['assume:a']) returned where role a holds assume:b and role b
\* holds assume:a: both were run through the trie and the work list holds
\* assume:a a second time
C26_Witness ==
  /\ ret.done
  /\ args.inputs = <<Assume(<<CH_a>>)>>
  /\ Len(args.roles) = 2
  /\ args.roles[1] = [roleId |-> <<CH_a>>, scopes |-> <<Assume(<<CH_b>>)>>]
  /\ args.roles[2] = [roleId |-> <<CH_b>>, scopes |-> <<Assume(<<CH_a>>)>>]
  /\ ret.runs = <<Assume(<<CH_a>>), Assume(<<CH_b>>)>>
  /\ ret.scopes = <<Assume(<<CH_a>>), Assume(<<CH_b>>), Assume(<<CH_a>>)>>

\* ------------------------------------------------------------------------
\* Specification of the shuffle: the fixed point of one role list computed
\* under two orders of the shuffle
\* ------------------------------------------------------------------------

\* Most roles given to computeFixedPoint twice
MaxShuffleRoles == 2

\* Their roleIds
ShuffleRoleIds == {<<CH_a>>, <<CH_b>>}

\* Direct scopes of these roles: assume: scopes for each role, '*', 'b', the
\* prefix scope 'b*' and 'b*(' which it covers
ShuffleScopes ==
  {Assume(<<CH_a>>), Assume(<<CH_b>>), <<STAR>>, <<CH_b>>, <<CH_b, STAR>>,
   <<CH_b, STAR, LPAREN>>}

\* The lists of direct scopes a role may have, without repetition
ShuffleScopeLists == DistinctLists(ShuffleScopes, MaxRoleScopes)

\* The lists of at most MaxShuffleRoles roleIds, each in ascending order
ShuffleIdLists ==
  {l \in DistinctLists(ShuffleRoleIds, MaxShuffleRoles) :
     \A i, j \in 1..Len(l) : i < j => StrLt(l[i], l[j])}

InitShuffle ==
  /\ TrieIdle
  /\ FixIdle
  /\ ResIdle
  /\ RelIdle
  /\ MrgIdle
  /\ \E l \in ShuffleIdLists :
       \E sc \in [1..Len(l) -> ShuffleScopeLists] :
         args = [i \in 1..Len(l) |-> [roleId |-> l[i], scopes |-> sc[i]]]
  /\ ret = None

\* computeFixedPoint(roles), the shuffle yielding some order
ComputeShuffled ==
  /\ ret = None
  /\ \E order \in Shuffles(args) :
       ret' = [first |-> computeFixedPoint(args, order), order |-> order,
               again |-> FALSE,
               second |-> computeFixedPoint(args, order), reorder |-> order]
  /\ UNCHANGED <<args, trieVars, fixVars, resVars, mrgVars, relVars>>

\* computeFixedPoint(roles) on the same roles, the shuffle yielding any order
ComputeReshuffled ==
  /\ ret # None
  /\ ~ret.again
  /\ \E order \in Shuffles(args) :
       ret' = [ret EXCEPT !.again = TRUE,
                          !.second = computeFixedPoint(args, order),
                          !.reorder = order]
  /\ UNCHANGED <<args, trieVars, fixVars, resVars, mrgVars, relVars>>

NextShuffle == ComputeShuffled \/ ComputeReshuffled

SpecShuffle == InitShuffle /\ [][NextShuffle]_vars

\* C27: the fixed point does not depend on the order in which
\* computeFixedPoint visits the roles: under any two orders every role's
\* expandedScopes and every scopeSets[i] are the same sets.
C27_OrderIndependent ==
  (ret # None /\ ret.again /\ ~ret.first.thrown /\ ~ret.second.thrown) =>
    /\ \A id \in DOMAIN ret.first.expandedScopes :
         Range(ret.first.expandedScopes[id])
           = Range(ret.second.expandedScopes[id])
    /\ \A i \in 1..Len(ret.first.scopeSets) :
         Range(ret.first.scopeSets[i]) = Range(ret.second.scopeSets[i])

\* ------------------------------------------------------------------------
\* ScopeResolver.normalizeScopes
\* ------------------------------------------------------------------------

\* _.uniq(scopes): each scope once, at its first place
RECURSIVE Uniq(_)
Uniq(scopes) ==
  IF Len(scopes) = 0 THEN <<>>
  ELSE LET front == Uniq(SubSeq(scopes, 1, Len(scopes) - 1))
           last == scopes[Len(scopes)]
       IN  IF last \in Range(front) THEN front ELSE Append(front, last)

\* other.endsWith('*') && scope.startsWith(other.slice(0, -1))
CoveredBy(scope, other) ==
  EndsWithStar(other) /\ StartsWith(scope, DropLast(other))

\* ScopeResolver.normalizeScopes(scopes) of scoperesolver.js: a scope stays
\* when every other scope either is the scope itself or does not cover it
normalizeScopes(scopes) ==
  LET uniq == Uniq(scopes)
      Keep(scope) ==
        \A k \in 1..Len(uniq) :
          IF uniq[k] = scope THEN TRUE ELSE ~CoveredBy(scope, uniq[k])
  IN  SelectSeq(uniq, Keep)

\* ScopeResolver.normalizeScopes(scopes) of data2.js: the test other ===
\* other holds for every other, so no scope is ever found to cover another
normalizeScopesData2(scopes) ==
  LET uniq == Uniq(scopes)
      Keep(scope) ==
        ~\E k \in 1..Len(uniq) :
           IF uniq[k] = uniq[k] THEN FALSE ELSE CoveredBy(scope, uniq[k])
  IN  SelectSeq(uniq, Keep)

\* Longest list given to normalizeScopes
MaxScopesLen == 3

\* Its scopes: 'a', 'b', and the prefix scopes 'a*' and 'a**', which
\* satisfy each other
NormScopes == {<<CH_a>>, <<CH_b>>, <<CH_a, STAR>>, <<CH_a, STAR, STAR>>}

InitNormalizeScopes ==
  /\ TrieIdle
  /\ FixIdle
  /\ ResIdle
  /\ RelIdle
  /\ MrgIdle
  /\ args \in UNION {[1..k -> NormScopes] : k \in 0..MaxScopesLen}
  /\ ret = None

\* ScopeResolver.normalizeScopes(S), scoperesolver.js
NormalizeScopes ==
  /\ ret = None
  /\ ret' = [scopes |-> normalizeScopes(args)]
  /\ UNCHANGED <<args, trieVars, fixVars, resVars, mrgVars, relVars>>

\* ScopeResolver.normalizeScopes(S), data2.js
NormalizeScopesData2 ==
  /\ ret = None
  /\ ret' = [scopes |-> normalizeScopesData2(args)]
  /\ UNCHANGED <<args, trieVars, fixVars, resVars, mrgVars, relVars>>

NextNormalizeScopes == NormalizeScopes \/ NormalizeScopesData2

SpecNormalizeScopes == InitNormalizeScopes /\ [][NextNormalizeScopes]_vars

\* sub is list with some of its entries left out
RECURSIVE IsSubList(_, _)
IsSubList(sub, list) ==
  IF Len(sub) = 0 THEN TRUE
  ELSE IF Len(list) = 0 THEN FALSE
  ELSE IF Head(sub) = Head(list) THEN IsSubList(Tail(sub), Tail(list))
  ELSE IsSubList(sub, Tail(list))

\* C28: normalizeScopes(S) is a sub-list of S, every scope of S is satisfied
\* by some scope of the result, and no scope of the result is satisfied by
\* a different scope of the result.
C28_NormalizeScopes ==
  ret # None =>
    /\ IsSubList(ret.scopes, args)
    /\ \A s \in Range(args) : \E t \in Range(ret.scopes) : Satisfies(t, s)
    /\ \A j, k \in 1..Len(ret.scopes) :
         j # k => ~Satisfies(ret.scopes[j], ret.scopes[k])

\* C29: the role list holds at most one role per roleId and the client list
\* at most one client per clientId, after any reload, reloadClient and
\* reloadRole operations in any interleaving, events repeated for one id
\* included.
C29_UniqueIds ==
  /\ \A p, q \in 1..Len(_roles) :
       p # q => _roles[p].roleId # _roles[q].roleId
  /\ \A p, q \in 1..Len(_clients) :
       p # q => _clients[p].clientId # _clients[q].clientId

\* Two reloadClient operations for the same clientId completed, each having
\* loaded the client, and the client list holds the client
C29_Witness ==
  /\ Len(reloads) = 2
  /\ reloads[1].kind = "reloadClient" /\ reloads[1].state = "fulfilled"
  /\ reloads[2].kind = "reloadClient" /\ reloads[2].state = "fulfilled"
  /\ reloads[1].arg = reloads[2].arg
  /\ written[reloads[1].arg] > 0
  /\ written[reloads[1].arg] <= reloads[1].since
  /\ Client[reloads[1].arg] # None
  /\ ClientEntries(_clients, reloads[1].arg) # {}

\* ------------------------------------------------------------------------
\* ScopeResolver.grantsRole
\* ------------------------------------------------------------------------

\* s.slice(start, -1): from index start up to the last character, which is
\* left out; empty when start is not before it
SliceButLast(s, start) ==
  IF start >= Len(s) - 1 THEN <<>> ELSE SubSeq(s, start + 1, Len(s) - 1)

\* s.endsWith(t)
EndsWith(s, t) ==
  Len(t) <= Len(s) /\ SubSeq(s, Len(s) - Len(t) + 1, Len(s)) = t

\* ScopeResolver.grantsRole(scope, roleId)
grantsRole(scope, roleId) ==
  IF /\ StartsWith(scope, AssumeColon)
     /\ \/ Len(scope) = Len(roleId) + 7 /\ EndsWith(scope, roleId)
        \/ /\ EndsWithStar(roleId)
           /\ StartsWith(SliceFrom(scope, 7), DropLast(roleId))
  THEN TRUE
  ELSE IF EndsWithStar(scope) /\ StartsWith(roleId, SliceButLast(scope, 7))
  THEN TRUE
  ELSE FALSE

\* Scopes given to grantsRole: assume: scopes, exact and with a wildcard,
\* wildcards that cover the assume: namespace or part of it, and scopes
\* outside it, plain and with a wildcard
GrantScopes ==
  {Assume(<<CH_a>>), Assume(<<CH_b>>), Assume(<<CH_a, CH_b>>),
   Assume(<<CH_a, STAR>>), Assume(<<STAR>>), AssumeColon,
   <<STAR>>, <<CH_a, CH_s, CH_s, STAR>>, <<CH_a>>, <<CH_b>>, <<CH_b, STAR>>,
   <<CH_b>> \o Assume(<<CH_a, STAR>>)}

\* roleIds given to grantsRole: 'a', 'b', 'ab' and the prefix roles 'a*'
\* and '*'
GrantRoleIds ==
  {<<CH_a>>, <<CH_b>>, <<CH_a, CH_b>>, <<CH_a, STAR>>, <<STAR>>}

InitGrants ==
  /\ TrieIdle
  /\ FixIdle
  /\ ResIdle
  /\ RelIdle
  /\ MrgIdle
  /\ args \in [scope : GrantScopes, roleId : GrantRoleIds]
  /\ ret = None

\* ScopeResolver.grantsRole(scope, roleId)
GrantsRole ==
  /\ ret = None
  /\ ret' = [granted |-> grantsRole(args.scope, args.roleId)]
  /\ UNCHANGED <<args, trieVars, fixVars, resVars, mrgVars, relVars>>

NextGrants == GrantsRole

SpecGrants == InitGrants /\ [][NextGrants]_vars

\* C30: grantsRole(scope, roleId) is true exactly when (A) scope is
\* 'assume:' + roleId, or (B) roleId ends with '*' and scope starts with
\* 'assume:' + roleId less that star, or (C) scope ends with '*' and
\* 'assume:' + roleId starts with scope less that star.
C30_GrantsRole ==
  ret # None =>
    (ret.granted <=>
       \/ args.scope = Assume(args.roleId)
       \/ /\ EndsWithStar(args.roleId)
          /\ StartsWith(args.scope, Assume(DropLast(args.roleId)))
       \/ /\ EndsWithStar(args.scope)
          /\ StartsWith(Assume(args.roleId), DropLast(args.scope)))

====
